---- MODULE Spec2Model ----
(***************************************************************************)
(* A model of backend/processors/model3d.py: Model3DProcessor.process and  *)
(* the decoders it dispatches to (_parse_obj, _parse_fbx, _parse_gltf,     *)
(* _parse_glb, _extract_gltf_data), with the FBX binary reader, the        *)
(* message handlers of backend/ws_handlers.py and run_pipeline of          *)
(* backend/processors/__init__.py beside it.                               *)
(*                                                                         *)
(* One behaviour is one call of process.  The source file is read as the   *)
(* decoder reads it: every step draws the next item of the file (an OBJ    *)
(* line or face-vertex token, an FBX Geometry node, a GLB chunk, a glTF    *)
(* primitive) from a small set, so the file of a behaviour is the          *)
(* sequence of items its steps drew.                                       *)
(*                                                                         *)
(* Spec is that call on every file within the bounds.  SpecCeiling reads   *)
(* on in an OBJ file that has reached the vertex ceiling, SpecTwice calls  *)
(* process twice on one file, and SpecFn calls one of the helpers          *)
(* (skeleton ordering, weight normalisation, keyframe decimation,          *)
(* _compute_bounds, the polygon loops, fan triangulation) on its own.      *)
(* SpecReader is _FbxBinaryReader.read_all_nodes on well-formed, truncated *)
(* and overwritten buffers.                                                *)
(* SpecWs is the handler layer of ws_handlers.py: prompt, console_error    *)
(* and cancel_agent messages interleaved with the agent tasks.             *)
(* SpecPipeline is processors.run_pipeline called again and again on a     *)
(* source file that is overwritten in between.                             *)
(*                                                                         *)
(* Float payloads are abstracted: all_positions, all_normals, all_uvs,     *)
(* all_joints and all_weights hold the LENGTH of the flat list of that     *)
(* name, because no branch of the code reads the values.  Index lists are  *)
(* kept in full.                                                           *)
(***************************************************************************)
EXTENDS Integers, Sequences, FiniteSets

\* ------------------------------------------------------------ constants
\* model3d.py:19 sets 100_000.  The model keeps every comparison against
\* the ceiling and scales its value, so that files below, at and above it
\* are all among the inputs.
_MAX_VERTICES == 3
\* model3d.py:20 sets 128, scaled the same way.
_MAX_BONES == 2
\* model3d.py:21 sets 500, scaled the same way.
_MAX_KEYFRAMES == 3

\* ------------------------------------------------------------ bounds
\* Lines of one OBJ file.
MaxLines == 3
\* Vertex tokens on the face lines of one OBJ file, taken together.
MaxTokens == 5
\* Geometry nodes of one FBX file; primitives of one glTF file.
MaxParts == 2
\* Meshes of one glTF file.
MaxMeshes == 2
\* Chunks of one GLB file.
MaxChunks == 2
\* Items of one file, in the specifications that write the items down.
MaxDraws == 9
\* Bone Models of one FBX file.
MaxBoneNodes == 3
\* Nodes of one glTF file, and joints of its first skin.
MaxNodes == 2
MaxJoints == 3
\* Cluster entries for one FBX vertex.
MaxInfluences == 5
\* Samples of one animation curve.
MaxCurveLen == 8
\* Position triples of one list given to _compute_bounds.
MaxTriples == 2
\* Vertices of one OBJ face line triangulated on its own.
MaxFaceLen == 5
\* Entries of one PolygonVertexIndex array split on its own.
MaxIndexLen == 3
\* Samples of one of the three curves merged into a track.
MaxChannelLen == 4
\* Largest value of a field overwritten in an FBX buffer.
MaxCell == 13
\* Calls of _read_node inside one another before the interpreter gives up.
MaxDepth == 3
\* Top-level nodes counted; the count stays there when more are read.
MaxRead == 3
\* Tasks of the event loop at one time.
MaxTasks == 3
\* Entries of pending_errors and of injected_messages.
MaxPending == 2
MaxInjected == 2
\* Sizes and contents the source file of run_pipeline takes.
MaxSize == 2
MaxContents == 3

VARIABLES
    pc,             \* control point inside process
    suffix,         \* source_path.suffix
    src,            \* what the call has read of the source file's framing
    outdir,         \* names of the files in output_dir
    positions,      \* _parse_obj: len(positions), the "v" table
    normals,        \* _parse_obj: len(normals), the "vn" table
    uvs,            \* _parse_obj: len(uvs), the "vt" table
    vertex_map,     \* _parse_obj: key -> output vertex index
    face_vertices,  \* _parse_obj: output indices of the face being read
    ntok,           \* _parse_obj: face-vertex tokens consumed so far
    all_positions,  \* len(out_positions) / len(all_positions)
    all_normals,    \* len(out_normals) / len(all_normals)
    all_uvs,        \* len(out_uvs) / len(all_uvs)
    all_joints,     \* _extract_gltf_data: len(all_joints)
    all_weights,    \* _extract_gltf_data: len(all_weights)
    all_indices,    \* out_indices / all_indices
    face_count,
    vertex_offset,
    truncated,
    warnings,
    nread,          \* items the running loop has consumed (lines, Geometry
                    \* nodes, chunks, primitives); 0 once the loop is over
    nmesh,          \* glTF meshes entered
    json_data,      \* _parse_glb: json_data; _parse_gltf: gltf
    bone_id_to_index, \* bone_id_to_index / joint_to_bone: the bones mapped
    failed,         \* the optional extractions that raised
    geometry,       \* <<>> or <<the dict the decoder returned>>
    result,         \* <<>> or <<the ProcessorResult returned>>
    raised,         \* <<>> or <<the exception that left process>>
    recording,      \* history: TRUE when the items drawn are written down
    file,           \* history: the items this call has drawn, in order
    todo,           \* a repeated call: the items still to be drawn again
    first,          \* a repeated call: <<>> or <<what the first call left>>
    arg,            \* a helper called on its own: <<>> or <<name, input>>
    ret,            \* a helper called on its own: <<>> or <<its value>>
    data,           \* _FbxBinaryReader: self.data, one cell per field
    rpc,            \* _FbxBinaryReader: control point of read_all_nodes
    read_offset,    \* read_all_nodes: offset
    read_nodes,     \* read_all_nodes: top-level nodes entered in nodes
    at,             \* _read_node: the offset the running call was given
    stack,          \* _read_node: end_offset and child_offset of the calls
                    \* that are in their child loop, innermost last
    api_key,        \* WsContext.api_key is set
    agent_busy,     \* WsContext.agent_busy
    agent_task,     \* WsContext.agent_task: 0 for None, or a task
    pending_errors, \* WsContext.pending_errors
    auto_fix_count, \* WsContext.auto_fix_count
    injected_messages, \* WsContext.injected_messages, oldest first
    tasks,          \* the tasks of the event loop
    source_file,    \* run_pipeline: the file at source_path
    manifest,       \* run_pipeline: output_dir / "manifest.json"
    in_thread,      \* run_pipeline: the call of proc.process under way
    served          \* run_pipeline: what the latest call returned

callVars == <<suffix, src>>
objVars == <<positions, normals, uvs, vertex_map, face_vertices, ntok>>
accVars == <<all_positions, all_normals, all_uvs, all_joints, all_weights,
             all_indices, face_count, vertex_offset, truncated, warnings>>
loopVars == <<nread, nmesh, json_data>>
optVars == <<bone_id_to_index, failed>>
outVars == <<geometry, result, raised>>
histVars == <<recording, file, todo, first>>
fnVars == <<arg, ret>>
readerVars == <<data, rpc, read_offset, read_nodes, at, stack>>
\* What the helpers and process do not touch.
wsVars == <<api_key, agent_busy, agent_task, pending_errors, auto_fix_count,
            injected_messages, tasks>>
cacheVars == <<source_file, manifest, in_thread, served>>
sideVars == <<readerVars, wsVars, cacheVars>>

vars == <<pc, callVars, outdir, objVars, accVars, loopVars, optVars,
          outVars, histVars, fnVars, sideVars>>

\* No reader has been constructed, no connection is open, and the output
\* directory of the uploaded file holds no manifest.
SideIdle ==
    /\ data = <<>>
    /\ rpc = "idle"
    /\ read_offset = 0
    /\ read_nodes = 0
    /\ at = 0
    /\ stack = <<>>
    /\ api_key = FALSE
    /\ agent_busy = FALSE
    /\ agent_task = 0
    /\ pending_errors = <<>>
    /\ auto_fix_count = 0
    /\ injected_messages = <<>>
    /\ tasks = <<>>
    /\ source_file = [size |-> 1, contents |-> 1]
    /\ manifest = <<>>
    /\ in_thread = <<>>
    /\ served = <<>>

\* ------------------------------------------------------------ helpers
\* The elements of a list.
Range0(s) == {s[i] : i \in 1..Len(s)}

\* The call reads one more item of its input: the decoder's next piece of
\* the file, or what the file system answers.  When the items are written
\* down the file has at most MaxDraws of them, and a repeated call is given
\* the items of the first call again.
Draw(name, params) ==
    /\ recording => Len(file) < MaxDraws
    /\ first # <<>> =>
           /\ todo # <<>>
           /\ Head(todo)[1] = name
           /\ Head(todo)[2] = params
    /\ file' = IF recording THEN Append(file, <<name, params>>) ELSE file
    /\ todo' = IF first # <<>> THEN Tail(todo) ELSE todo
    /\ UNCHANGED <<recording, first, fnVars, sideVars>>

\* str.lower() on the suffixes the model draws.
Lower(s) ==
    CASE s = ".OBJ" -> ".obj"
      [] s = ".GLB" -> ".glb"
      [] s = ".TXT" -> ".txt"
      [] OTHER -> s

Suffixes == {".OBJ", ".fbx", ".gltf", ".GLB", ".txt", ".TXT", ".objx", ""}

supported_extensions == {".obj", ".fbx", ".gltf", ".glb"}

TruncationWarning == "Model exceeds _MAX_VERTICES vertices, truncated"

\* A dispatch that hands every other extension to the OBJ decoder.
RouteAnyToObj(ext) ==
    CASE ext = ".fbx" -> "fbx"
      [] ext = ".gltf" -> "gltf"
      [] ext = ".glb" -> "glb"
      [] OTHER -> "obj"

\* The if/elif chain of process: the decoder an extension selects.
Route(ext) ==
    CASE ext = ".obj" -> "obj"
      [] ext = ".fbx" -> "fbx"
      [] ext = ".gltf" -> "gltf"
      [] ext = ".glb" -> "glb"
      [] OTHER -> "unsupported"

\* ProcessorResult(status="error", error=...): outputs, metadata and
\* warnings keep their dataclass defaults.
ErrorResult(msg) ==
    [status |-> "error", error |-> msg, outputs |-> <<>>,
     metadata |-> <<>>, warnings |-> <<>>]

\* The except clause of process: status "error", "Parse error: {e}".
ParseError(e) ==
    /\ result' = <<ErrorResult(<<"Parse error", e>>)>>
    /\ pc' = "returned"
    /\ UNCHANGED <<geometry, raised>>

\* A status that disregards the warnings.
StatusIgnoringWarnings(warn) == "success"

\* "partial" if warnings else "success".
Status(warn) == IF warn # <<>> THEN "partial" ELSE "success"

\* process, after the decoder returned: the result built from the dict
\* once "_warnings" and "_texture_files" are popped.
SuccessResult(g) ==
    [status |-> Status(g.warnings),
     error |-> <<>>,
     outputs |-> <<"geometry.json">> \o g.texture_files,
     metadata |-> [vertex_count |-> g.vertex_count,
                   face_count |-> g.face_count,
                   has_normals |-> g.has_normals,
                   has_uvs |-> g.has_uvs,
                   has_materials |-> "materials" \in g.keys,
                   has_skeleton |-> "skeleton" \in g.keys,
                   has_animations |-> "animations" \in g.keys],
     warnings |-> g.warnings]

\* The dict a decoder returns.  keys holds the optional keys present
\* ("materials", "skeleton", "animations"); warnings is the "_warnings"
\* side channel and texture_files the "_texture_files" one ([] if absent).
Geometry(npos, nnorm, nuv, idx, faces, warn) ==
    [vertex_count |-> npos \div 3,
     face_count |-> faces,
     has_normals |-> nnorm > 0,
     has_uvs |-> nuv > 0,
     positions |-> npos,
     normals |-> nnorm,
     uvs |-> nuv,
     indices |-> idx,
     warnings |-> warn,
     keys |-> {},
     texture_files |-> <<>>,
     bone_indices |-> 0,
     bone_weights |-> 0]

\* A strip over the same vertices, (v_i-1, v_i, v_i+1), in place of the fan.
Strip(fv) ==
    IF Len(fv) < 3 THEN <<>>
    ELSE [j \in 1..(3 * (Len(fv) - 2)) |->
            fv[((j - 1) \div 3) + 1 + ((j - 1) % 3)]]

\* The fan of a polygon: (v0, v_i, v_i+1) for i = 1..k-2, flattened.
Fan(fv) ==
    IF Len(fv) < 3 THEN <<>>
    ELSE [j \in 1..(3 * (Len(fv) - 2)) |->
            LET i == ((j - 1) \div 3) + 1
                c == (j - 1) % 3
            IN  IF c = 0 THEN fv[1] ELSE fv[i + c]]

\* The number of triangles the fan loop adds to the face count.
FanCount(fv) == IF Len(fv) < 3 THEN 0 ELSE Len(fv) - 2

\* Nothing read yet.  readable: the file could be read; len: its length; sig: the first 21 bytes (FBX);
\* magic: the first uint32 (GLB); nodes: read_all_nodes returned; objects,
\* geometry: the FBX tree has an Objects node and Geometry nodes under it;
\* wellformed: its Objects and Connections nodes are single nodes;
\* json_chunk: a chunk of type JSON was read.
NoSource ==
    [readable |-> FALSE, len |-> 0, sig |-> "", magic |-> 0, nodes |-> FALSE, objects |-> FALSE,
     wellformed |-> FALSE, geometry |-> FALSE, json_chunk |-> FALSE]

InitProcess ==
    /\ pc = "idle"
    /\ suffix = ""
    /\ src = NoSource
    /\ outdir = {}
    /\ positions = 0
    /\ normals = 0
    /\ uvs = 0
    /\ vertex_map = <<>>
    /\ face_vertices = <<>>
    /\ ntok = 0
    /\ all_positions = 0
    /\ all_normals = 0
    /\ all_uvs = 0
    /\ all_joints = 0
    /\ all_weights = 0
    /\ all_indices = <<>>
    /\ face_count = 0
    /\ vertex_offset = 0
    /\ truncated = FALSE
    /\ warnings = <<>>
    /\ nread = 0
    /\ nmesh = 0
    /\ json_data = "None"
    /\ bone_id_to_index = {}
    /\ failed = {}
    /\ geometry = <<>>
    /\ result = <<>>
    /\ raised = <<>>

Init ==
    /\ InitProcess
    /\ recording = FALSE
    /\ file = <<>>
    /\ todo = <<>>
    /\ first = <<>>
    /\ arg = <<>>
    /\ ret = <<>>
    /\ SideIdle

\* process: entry and dispatch on the lowercased extension.
process(sfx) ==
    /\ pc = "idle"
    /\ suffix' = sfx
    /\ LET ext == Lower(sfx)
           parser == Route(ext)
       IN  IF parser = "unsupported"
           THEN /\ result' = <<ErrorResult(<<"Unsupported format", ext>>)>>
                /\ pc' = "returned"
           ELSE /\ pc' = parser
                /\ UNCHANGED result
    /\ UNCHANGED <<src, outdir, objVars, accVars, loopVars, optVars,
                   geometry, raised>>
    /\ Draw("process", <<sfx>>)

\* process: geometry.json is written outside the try; then the result is
\* built and returned.  dir_ok: whether write_text succeeds.
WriteGeometry(dir_ok) ==
    /\ pc = "write"
    /\ IF dir_ok
       THEN /\ outdir' = outdir \cup {"geometry.json"}
            /\ result' = <<SuccessResult(geometry[1])>>
            /\ pc' = "returned"
            /\ UNCHANGED raised
       ELSE /\ raised' = <<"OSError">>
            /\ pc' = "raised"
            /\ UNCHANGED <<outdir, result>>
    /\ UNCHANGED <<callVars, objVars, accVars, loopVars, optVars, geometry>>
    /\ Draw("WriteGeometry", <<dir_ok>>)

\* ------------------------------------------------------------ OBJ
\* A face-vertex token "p/t/n"; 0 stands for an omitted component.
Omitted == 0
FaceTokens == {<<1, 0, 0>>, <<2, 0, 1>>, <<3, 1, 1>>, <<4, 2, 0>>}

\* int(indices[k]) - 1 if the component is there, else -1.
\* Every token taken for the first vertex without attributes.
FirstVertexKey(tok) == <<0, -1, -1>>

TokenIndex(c) == IF c # Omitted THEN c - 1 ELSE -1

TokenKey(tok) ==
    <<TokenIndex(tok[1]), TokenIndex(tok[2]), TokenIndex(tok[3])>>

\* _parse_obj: path.read_text; an unreadable file raises inside the try.
ObjRead(readable) ==
    /\ pc = "obj"
    /\ src' = [src EXCEPT !.readable = readable]
    /\ IF readable
       THEN pc' = "obj_line" /\ UNCHANGED outVars
       ELSE ParseError("OSError")
    /\ UNCHANGED <<suffix, outdir, objVars, accVars, loopVars, optVars>>
    /\ Draw("ObjRead", <<readable>>)

\* _parse_obj: one line that is not a face.  "other" is a blank line, a
\* comment, an unknown prefix or a line with too few parts; "bad" is a
\* v/vn/vt line with a malformed number (float raises ValueError).
ObjLine(kind) ==
    /\ pc = "obj_line"
    /\ nread < MaxLines
    /\ IF kind = "bad"
       THEN /\ ParseError("ValueError")
            /\ UNCHANGED <<positions, normals, uvs, nread>>
       ELSE /\ positions' = IF kind = "v" THEN positions + 1 ELSE positions
            /\ normals' = IF kind = "vn" THEN normals + 1 ELSE normals
            /\ uvs' = IF kind = "vt" THEN uvs + 1 ELSE uvs
            /\ nread' = nread + 1
            /\ UNCHANGED <<pc, outVars>>
    /\ UNCHANGED <<callVars, outdir, vertex_map, face_vertices, ntok,
                   accVars, nmesh, json_data, optVars>>
    /\ Draw("ObjLine", <<kind>>)

\* _parse_obj: an "f" line begins.
ObjFaceBegin ==
    /\ pc = "obj_line"
    /\ nread < MaxLines
    /\ pc' = "obj_face"
    /\ face_vertices' = <<>>
    /\ UNCHANGED <<callVars, outdir, positions, normals, uvs, vertex_map,
                   ntok, accVars, loopVars, optVars, outVars>>
    /\ Draw("ObjFaceBegin", <<>>)

\* _parse_obj: one iteration of "for vert_str in parts[1:]".
ObjFaceVertex(tok) ==
    /\ pc = "obj_face"
    /\ ntok < MaxTokens
    /\ ntok' = ntok + 1
    /\ LET key == TokenKey(tok)
           v_idx == key[1]
           vt_idx == key[2]
           vn_idx == key[3]
           idx == all_positions \div 3
       IN  IF key \notin DOMAIN vertex_map
           THEN IF all_positions \div 3 >= _MAX_VERTICES
                THEN /\ warnings' = IF ~truncated
                                    THEN Append(warnings, TruncationWarning)
                                    ELSE warnings
                     /\ truncated' = TRUE
                     /\ pc' = "obj_face_end"
                     /\ UNCHANGED <<vertex_map, face_vertices, all_positions,
                                    all_normals, all_uvs>>
                ELSE /\ vertex_map' =
                            [k \in DOMAIN vertex_map \cup {key} |->
                                IF k = key THEN idx ELSE vertex_map[k]]
                     /\ all_positions' =
                            IF 0 <= v_idx /\ v_idx < positions
                            THEN all_positions + 3 ELSE all_positions + 3
                     /\ all_normals' =
                            IF 0 <= vn_idx /\ vn_idx < normals
                            THEN all_normals + 3 ELSE all_normals
                     /\ all_uvs' =
                            IF 0 <= vt_idx /\ vt_idx < uvs
                            THEN all_uvs + 2 ELSE all_uvs
                     /\ face_vertices' = Append(face_vertices, idx)
                     /\ UNCHANGED <<pc, truncated, warnings>>
           ELSE /\ face_vertices' = Append(face_vertices, vertex_map[key])
                /\ UNCHANGED <<pc, vertex_map, all_positions, all_normals,
                               all_uvs, truncated, warnings>>
    /\ UNCHANGED <<callVars, outdir, positions, normals, uvs, all_joints,
                   all_weights, all_indices, face_count, vertex_offset,
                   loopVars, optVars, outVars>>
    /\ Draw("ObjFaceVertex", <<tok>>)

\* _parse_obj: a vertex token whose index is not a number (int raises).
ObjFaceBadToken ==
    /\ pc = "obj_face"
    /\ ParseError("ValueError")
    /\ UNCHANGED <<callVars, outdir, objVars, accVars, loopVars, optVars>>
    /\ Draw("ObjFaceBadToken", <<>>)

\* _parse_obj: the face line ends (or its token loop broke): skip it once
\* truncated, else fan-triangulate it.
ObjFaceEnd ==
    /\ pc \in {"obj_face", "obj_face_end"}
    /\ IF truncated
       THEN UNCHANGED <<all_indices, face_count>>
       ELSE /\ all_indices' = all_indices \o Fan(face_vertices)
            /\ face_count' = face_count + FanCount(face_vertices)
    /\ face_vertices' = <<>>
    /\ nread' = nread + 1
    /\ pc' = "obj_line"
    /\ UNCHANGED <<callVars, outdir, positions, normals, uvs, vertex_map,
                   ntok, all_positions, all_normals, all_uvs, all_joints,
                   all_weights, vertex_offset, truncated, warnings, nmesh,
                   json_data, optVars, outVars>>
    /\ Draw("ObjFaceEnd", <<>>)

\* _parse_obj: end of text; build the dict.
ObjEof ==
    /\ pc = "obj_line"
    /\ geometry' = <<Geometry(all_positions, all_normals, all_uvs,
                              all_indices, face_count, warnings)>>
    /\ pc' = "write"
    /\ nread' = 0
    /\ ntok' = 0
    /\ UNCHANGED <<callVars, outdir, positions, normals, uvs, vertex_map,
                   face_vertices, accVars, nmesh, json_data, optVars,
                   result, raised>>
    /\ Draw("ObjEof", <<>>)

\* ------------------------------------------------------------ FBX
\* _FbxBinaryReader.__init__: the signature and the least length.
FbxMagic == "Kaydara FBX Binary  "
FbxHeaderLen == 27

FbxHeaders ==
    {[len |-> 0, sig |-> ""],
     [len |-> 26, sig |-> FbxMagic],
     [len |-> 64, sig |-> "; FBX 7.4.0 project f"],
     [len |-> 64, sig |-> FbxMagic]}

\* What read_all_nodes makes of the bytes after the header.
FbxTrees ==
    {[nodes |-> FALSE, objects |-> FALSE, wellformed |-> FALSE,
      geometry |-> FALSE],
     [nodes |-> TRUE, objects |-> FALSE, wellformed |-> TRUE,
      geometry |-> FALSE],
     [nodes |-> TRUE, objects |-> TRUE, wellformed |-> FALSE,
      geometry |-> TRUE],
     [nodes |-> TRUE, objects |-> TRUE, wellformed |-> TRUE,
      geometry |-> FALSE],
     [nodes |-> TRUE, objects |-> TRUE, wellformed |-> TRUE,
      geometry |-> TRUE]}

\* PolygonVertexIndex arrays: a negative entry closes a polygon.
PviArrays ==
    {<<>>, <<0, 1>>, <<0, -2>>, <<0, 1, -3>>, <<0, 1, 2, -4>>,
     <<0, 1, -3, 2, 1, -4>>}

\* len(raw_verts) of the Vertices array.
RawVertLens == {0, 3, 9, 12}

\* A Geometry node under Objects: its subtype (props[2]), whether it has
\* a Vertices array and its length, whether it has a PolygonVertexIndex
\* array and that array, whether LayerElementNormal / LayerElementUV carry
\* a non-empty Normals / UV array.
GeometryNodes ==
    {[subtype |-> "Shape", has_vertices |-> TRUE, raw_verts |-> 3,
      has_pvi |-> TRUE, pvi |-> <<0, 1, -3>>, normals |-> FALSE,
      uvs |-> FALSE],
     [subtype |-> "Mesh", has_vertices |-> FALSE, raw_verts |-> 0,
      has_pvi |-> TRUE, pvi |-> <<0, 1, -3>>, normals |-> FALSE,
      uvs |-> FALSE]}
    \cup [subtype : {"Mesh"}, has_vertices : {TRUE}, raw_verts : RawVertLens,
          has_pvi : {FALSE}, pvi : {<<>>}, normals : {FALSE}, uvs : {FALSE}]
    \cup [subtype : {"Mesh"}, has_vertices : {TRUE}, raw_verts : RawVertLens,
          has_pvi : {TRUE}, pvi : PviArrays, normals : BOOLEAN,
          uvs : BOOLEAN]

\* Plain negation in place of the complement.
Negate(i) == -i

\* ~idx on Python integers.
BitNot(i) == -i - 1

\* _parse_fbx, "Build polygons": the loop over raw_indices.
RECURSIVE SplitPolygons(_, _, _)
SplitPolygons(raw_indices, current_poly, polygons) ==
    IF raw_indices = <<>> THEN polygons
    ELSE LET idx == Head(raw_indices)
         IN  IF idx < 0
             THEN SplitPolygons(Tail(raw_indices), <<>>,
                      Append(polygons, Append(current_poly, BitNot(idx))))
             ELSE SplitPolygons(Tail(raw_indices),
                      Append(current_poly, idx), polygons)

\* _parse_fbx, "Build output with fan triangulation": every polygon
\* corner becomes a new output vertex (3 floats are appended to
\* mesh_positions whether or not v_idx is in range), every polygon is
\* fanned over its own corners.
RECURSIVE ExpandPolygons(_, _, _, _)
ExpandPolygons(polygons, out_vert_idx, mesh_indices, mesh_face_count) ==
    IF polygons = <<>>
    THEN [out_vert_idx |-> out_vert_idx, mesh_indices |-> mesh_indices,
          mesh_face_count |-> mesh_face_count]
    ELSE LET poly == Head(polygons)
             poly_out == [i \in 1..Len(poly) |-> out_vert_idx + i - 1]
         IN  ExpandPolygons(Tail(polygons), out_vert_idx + Len(poly),
                 mesh_indices \o Fan(poly_out),
                 mesh_face_count + FanCount(poly_out))

\* [idx + vertex_offset for idx in indices]
Shift(indices, off) == [i \in 1..Len(indices) |-> indices[i] + off]

\* _parse_fbx: read_bytes and the reader's header check.
FbxOpen(readable, hdr) ==
    /\ pc = "fbx"
    /\ IF ~readable
       THEN ParseError("OSError") /\ UNCHANGED src
       ELSE /\ src' = [src EXCEPT !.readable = TRUE, !.len = hdr.len,
                                  !.sig = hdr.sig]
            /\ IF hdr.len < FbxHeaderLen \/ hdr.sig # FbxMagic
               THEN ParseError("Not a valid FBX binary file")
               ELSE pc' = "fbx_nodes" /\ UNCHANGED outVars
    /\ UNCHANGED <<suffix, outdir, objVars, accVars, loopVars, optVars>>
    /\ Draw("FbxOpen", <<readable, hdr>>)

\* _parse_fbx: read_all_nodes, the Objects check, the connection and
\* object maps, the Geometry check.  A reader error, or an Objects or
\* Connections entry that is a list, raises some other exception.
FbxReadNodes(tree) ==
    /\ pc = "fbx_nodes"
    /\ src' = [src EXCEPT !.nodes = tree.nodes, !.objects = tree.objects,
                          !.wellformed = tree.wellformed,
                          !.geometry = tree.geometry]
    /\ IF ~tree.nodes THEN ParseError("struct.error")
       ELSE IF ~tree.objects
            THEN ParseError("FBX file has no Objects section")
       ELSE IF ~tree.wellformed THEN ParseError("AttributeError")
       ELSE IF ~tree.geometry
            THEN ParseError("FBX file has no Geometry nodes")
       ELSE pc' = "fbx_geom" /\ UNCHANGED outVars
    /\ UNCHANGED <<suffix, outdir, objVars, accVars, loopVars, optVars>>
    /\ Draw("FbxReadNodes", <<tree>>)

\* _parse_fbx: one iteration of "for geom in geom_nodes".
FbxGeometry(geom) ==
    /\ pc = "fbx_geom"
    /\ nread < MaxParts
    /\ nread' = nread + 1
    /\ LET n_verts == geom.raw_verts \div 3
           over == vertex_offset + n_verts > _MAX_VERTICES
           remaining == _MAX_VERTICES - vertex_offset
       IN  IF geom.subtype # "Mesh" \/ ~geom.has_vertices \/ truncated
           THEN UNCHANGED accVars
           ELSE IF over /\ remaining <= 0
           THEN /\ warnings' = IF ~truncated
                               THEN Append(warnings, TruncationWarning)
                               ELSE warnings
                /\ truncated' = TRUE
                /\ UNCHANGED <<all_positions, all_normals, all_uvs,
                               all_joints, all_weights, all_indices,
                               face_count, vertex_offset>>
           ELSE /\ warnings' = IF over
                               THEN Append(warnings, TruncationWarning)
                               ELSE warnings
                /\ truncated' = over
                /\ IF ~geom.has_pvi
                   THEN UNCHANGED <<all_positions, all_normals, all_uvs,
                                    all_indices, face_count, vertex_offset>>
                   ELSE LET polygons == SplitPolygons(geom.pvi, <<>>, <<>>)
                            mesh == ExpandPolygons(polygons, 0, <<>>, 0)
                            n == mesh.out_vert_idx
                        IN  /\ all_indices' = all_indices \o
                                   Shift(mesh.mesh_indices, vertex_offset)
                            /\ all_positions' = all_positions + 3 * n
                            /\ all_normals' = all_normals +
                                   (IF geom.normals THEN 3 * n ELSE 0)
                            /\ all_uvs' = all_uvs +
                                   (IF geom.uvs THEN 2 * n ELSE 0)
                            /\ face_count' = face_count + mesh.mesh_face_count
                            /\ vertex_offset' = vertex_offset + n
                /\ UNCHANGED <<all_joints, all_weights>>
    /\ UNCHANGED <<pc, callVars, outdir, objVars, nmesh, json_data, optVars,
                   outVars>>
    /\ Draw("FbxGeometry", <<geom>>)

\* _parse_fbx: a Geometry node the loop body cannot digest (an array of
\* floats as PolygonVertexIndex makes ~idx raise TypeError).
FbxGeometryRaises ==
    /\ pc = "fbx_geom"
    /\ nread < MaxParts
    /\ ParseError("TypeError")
    /\ UNCHANGED <<callVars, outdir, objVars, accVars, loopVars, optVars>>
    /\ Draw("FbxGeometryRaises", <<>>)

\* _parse_fbx: the loop is over; build the dict.
FbxGeometryEnd ==
    /\ pc = "fbx_geom"
    /\ nread >= 1
    /\ geometry' = <<Geometry(all_positions, all_normals, all_uvs,
                              all_indices, face_count, warnings)>>
    /\ pc' = "fbx_materials"
    /\ nread' = 0
    /\ UNCHANGED <<callVars, outdir, objVars, accVars, nmesh, json_data,
                   optVars, result, raised>>
    /\ Draw("FbxGeometryEnd", <<>>)

\* ------------------------------------------------------------ FBX, optional data
\* texture_{idx}{ext}, in the order written (the extension is not kept).
TextureNames == <<"texture_0", "texture_1">>
TextureFiles(n) == SubSeq(TextureNames, 1, n)

\* The dict with an optional key set.
WithKey(g, key) == [g EXCEPT !.keys = @ \cup {key}]

\* An except clause that still sets the stage's key.
LogAndSetKey(stage) ==
    /\ failed' = failed \cup {stage}
    /\ geometry' = <<WithKey(geometry[1], stage)>>

\* The except clause of an optional stage: the exception is logged, the
\* dict stays as it is.  (failed records which stages ended this way.)
LogAndContinue(stage) ==
    /\ failed' = failed \cup {stage}
    /\ UNCHANGED geometry

\* What material extraction meets in the file: nmat materials, ntex
\* embedded textures written to output_dir, and then (raises) an exception
\* (a failing write_bytes, a property that float() rejects).
MaterialInputs ==
    {[nmat |-> 0, ntex |-> 0, raises |-> FALSE],
     [nmat |-> 1, ntex |-> 0, raises |-> FALSE],
     [nmat |-> 2, ntex |-> 2, raises |-> FALSE],
     [nmat |-> 2, ntex |-> 1, raises |-> TRUE]}

\* What skeleton extraction meets: the bones _extract_fbx_skeleton maps,
\* whether it returns clusters, and where (if anywhere) an exception is
\* raised: "extract" inside _extract_fbx_skeleton, "weights" in the
\* influence loop of _parse_fbx.
FbxSkeletonInputs ==
    {[bones |-> {}, clusters |-> FALSE, raises |-> "no"],
     [bones |-> {0, 1}, clusters |-> FALSE, raises |-> "no"],
     [bones |-> {0, 1}, clusters |-> TRUE, raises |-> "no"],
     [bones |-> {0, 1}, clusters |-> TRUE, raises |-> "extract"],
     [bones |-> {0, 1}, clusters |-> TRUE, raises |-> "weights"]}

\* What animation extraction meets: animations with tracks, an exception.
AnimationInputs ==
    {[anims |-> 0, raises |-> FALSE],
     [anims |-> 1, raises |-> FALSE],
     [anims |-> 1, raises |-> TRUE]}

\* _parse_fbx, "Materials": _extract_fbx_materials inside try/except.
\* Textures are written as they are met; the two result keys are set
\* only if the call returns.
FbxMaterials(m) ==
    /\ pc = "fbx_materials"
    /\ outdir' = outdir \cup Range0(TextureFiles(m.ntex))
    /\ IF m.raises
       THEN LogAndContinue("materials")
       ELSE /\ geometry' =
                <<[(IF m.nmat > 0 THEN WithKey(geometry[1], "materials")
                    ELSE geometry[1])
                   EXCEPT !.texture_files = TextureFiles(m.ntex)]>>
            /\ UNCHANGED failed
    /\ pc' = "fbx_skeleton"
    /\ UNCHANGED <<callVars, objVars, accVars, loopVars, bone_id_to_index,
                   result, raised>>
    /\ Draw("FbxMaterials", <<m>>)

\* _parse_fbx, "Skeleton": bone_id_to_index is bound when
\* _extract_fbx_skeleton returns; result["skeleton"] is set after the
\* influence loop, with 4 indices and 4 weights per output vertex.
FbxSkeleton(s) ==
    /\ pc = "fbx_skeleton"
    /\ bone_id_to_index' = IF s.raises = "extract" THEN {} ELSE s.bones
    /\ IF s.raises # "no"
       THEN LogAndContinue("skeleton")
       ELSE /\ geometry' =
                IF s.bones # {} /\ s.clusters
                THEN <<[WithKey(geometry[1], "skeleton")
                        EXCEPT !.bone_indices = 4 * geometry[1].vertex_count,
                               !.bone_weights = 4 * geometry[1].vertex_count]>>
                ELSE geometry
            /\ UNCHANGED failed
    /\ pc' = "fbx_animations"
    /\ UNCHANGED <<callVars, outdir, objVars, accVars, loopVars, result,
                   raised>>
    /\ Draw("FbxSkeleton", <<s>>)

\* _parse_fbx, "Animations": _extract_fbx_animations returns [] at once
\* when bone_id_to_index is empty.
FbxAnimations(a) ==
    /\ pc = "fbx_animations"
    /\ IF bone_id_to_index = {}
       THEN UNCHANGED <<geometry, failed>>
       ELSE IF a.raises
       THEN LogAndContinue("animations")
       ELSE /\ geometry' = IF a.anims > 0
                           THEN <<WithKey(geometry[1], "animations")>>
                           ELSE geometry
            /\ UNCHANGED failed
    /\ pc' = "write"
    /\ UNCHANGED <<callVars, outdir, objVars, accVars, loopVars,
                   bone_id_to_index, result, raised>>
    /\ Draw("FbxAnimations", <<a>>)

\* ------------------------------------------------------------ glTF and GLB
\* _parse_glb: the least length of a GLB file, its magic, and the types of
\* the JSON and BIN chunks.
GlbHeaderLen == 12
GLB_MAGIC == 1179937895
CHUNK_JSON == 1313821514
CHUNK_BIN == 5130562

\* Headers a .glb file may start with: shorter than a header, foreign
\* magic, well-formed.
GlbHeaders ==
    {[len |-> 8, magic |-> GLB_MAGIC],
     [len |-> 12, magic |-> 0],
     [len |-> 12, magic |-> GLB_MAGIC],
     [len |-> 40, magic |-> CHUNK_JSON],
     [len |-> 40, magic |-> GLB_MAGIC]}

\* What json.loads gives for a document: a dict, another JSON value, None
\* for null, or (invalid) an exception.
JsonValues == {"dict", "list", "null", "invalid"}

\* Chunks of a .glb file: type and, for a JSON chunk, its document.
GlbChunks ==
    {[type |-> CHUNK_JSON, json |-> j] : j \in JsonValues}
    \cup {[type |-> CHUNK_BIN, json |-> "None"],
          [type |-> 0, json |-> "None"]}

\* Index accessors of a primitive: a triangle, two lines whose last
\* index names a fourth vertex.
IndexArrays == {<<0, 1, 2>>, <<2, 1, 0, 3>>}

\* Attribute sets of a primitive (POSITION is described by its length).
AttributeSets ==
    {{}, {"NORMAL"}, {"NORMAL", "TEXCOORD_0", "JOINTS_0", "WEIGHTS_0"}}

\* Primitives: the length of the POSITION accessor's values, the other
\* attributes (each with one element per POSITION
\* element), the index accessor or none.
GltfPrimitives ==
    [pos : {3, 6, 12}, attrs : AttributeSets,
     has_indices : {TRUE}, indices : IndexArrays]
    \cup [pos : {3, 6, 12}, attrs : AttributeSets,
          has_indices : {FALSE}, indices : {<<>>}]

\* len(x[:k]) for a list of length n.
Slice(n, k) == IF n < k THEN n ELSE k

\* The values read_accessor returns for an attribute of comps components
\* in a primitive of count elements, after the truncation of the
\* primitive to n_verts vertices (if cut).
AttrLen(prim, name, comps, count, cut, n_verts) ==
    IF name \notin prim.attrs THEN 0
    ELSE IF cut THEN Slice(comps * count, n_verts * comps)
    ELSE comps * count

\* [offset + i, offset + i + 1, offset + i + 2 for i in range(0, n - 2, 3)]
RECURSIVE SequentialTriangles(_, _, _)
SequentialTriangles(i, n, offset) ==
    IF i >= n - 2 THEN <<>>
    ELSE <<offset + i, offset + i + 1, offset + i + 2>>
         \o SequentialTriangles(i + 3, n, offset)

\* _parse_gltf: read and decode the file, collect the buffers.
GltfOpen(readable, json, buffers_ok) ==
    /\ pc = "gltf"
    /\ src' = [src EXCEPT !.readable = readable]
    /\ IF ~readable THEN ParseError("OSError") /\ UNCHANGED json_data
       ELSE IF json = "invalid"
       THEN ParseError("JSONDecodeError") /\ UNCHANGED json_data
       ELSE IF json # "dict"
       THEN ParseError("AttributeError") /\ UNCHANGED json_data
       ELSE IF ~buffers_ok
       THEN ParseError("ValueError") /\ UNCHANGED json_data
       ELSE /\ json_data' = json
            /\ pc' = "gltf_mesh"
            /\ UNCHANGED outVars
    /\ UNCHANGED <<suffix, outdir, objVars, accVars, nread, nmesh, optVars>>
    /\ Draw("GltfOpen", <<readable, json, buffers_ok>>)

\* _parse_glb: read the file, check length and magic.
GlbOpen(readable, hdr) ==
    /\ pc = "glb"
    /\ src' = IF readable
              THEN [src EXCEPT !.readable = TRUE, !.len = hdr.len,
                               !.magic = hdr.magic]
              ELSE src
    /\ IF ~readable THEN ParseError("OSError")
       ELSE IF hdr.len < GlbHeaderLen THEN ParseError("GLB file too small")
       ELSE IF hdr.magic # GLB_MAGIC THEN ParseError("Not a valid GLB file")
       ELSE pc' = "glb_chunk" /\ UNCHANGED outVars
    /\ UNCHANGED <<suffix, outdir, objVars, accVars, loopVars, optVars>>
    /\ Draw("GlbOpen", <<readable, hdr>>)

\* _parse_glb: one iteration of the chunk loop.
GlbChunk(chunk) ==
    /\ pc = "glb_chunk"
    /\ nread < MaxChunks
    /\ nread' = nread + 1
    /\ src' = [src EXCEPT !.json_chunk = @ \/ chunk.type = CHUNK_JSON]
    /\ IF chunk.type = CHUNK_JSON /\ chunk.json = "invalid"
       THEN ParseError("JSONDecodeError") /\ UNCHANGED json_data
       ELSE /\ json_data' = IF chunk.type = CHUNK_JSON THEN chunk.json
                            ELSE json_data
            /\ UNCHANGED <<pc, outVars>>
    /\ UNCHANGED <<suffix, outdir, objVars, accVars, nmesh, optVars>>
    /\ Draw("GlbChunk", <<chunk>>)

\* An end of the chunk loop without the "json_data is None" check.
GlbChunksEndUnchecked ==
    /\ pc = "glb_chunk"
    /\ pc' = "gltf_mesh"
    /\ nread' = 0
    /\ UNCHANGED <<callVars, outdir, objVars, accVars, nmesh, json_data,
                   optVars, outVars>>
    /\ Draw("GlbChunksEnd", <<>>)

\* _parse_glb: the end of the data; _extract_gltf_data starts with
\* gltf.get, which a document that is no dict does not have.
GlbChunksEnd ==
    /\ pc = "glb_chunk"
    /\ IF json_data = "None" THEN ParseError("No JSON chunk in GLB")
       ELSE IF json_data # "dict" THEN ParseError("AttributeError")
       ELSE pc' = "gltf_mesh" /\ UNCHANGED outVars
    /\ nread' = 0
    /\ UNCHANGED <<callVars, outdir, objVars, accVars, nmesh, json_data,
                   optVars>>
    /\ Draw("GlbChunksEnd", <<>>)

\* _extract_gltf_data: the next mesh of "for mesh in gltf.get('meshes')".
GltfMesh ==
    /\ pc = "gltf_mesh"
    /\ nmesh < MaxMeshes
    /\ nmesh' = nmesh + 1
    /\ pc' = "gltf_prim"
    /\ UNCHANGED <<callVars, outdir, objVars, accVars, nread, json_data,
                   optVars, outVars>>
    /\ Draw("GltfMesh", <<>>)

\* _extract_gltf_data: one iteration of "for prim in mesh.get('primitives')".
GltfPrimitive(prim) ==
    /\ pc = "gltf_prim"
    /\ nread < MaxParts
    /\ nread' = nread + 1
    /\ LET count == prim.pos \div 3
           cut == vertex_offset + count > _MAX_VERTICES
           remaining == _MAX_VERTICES - vertex_offset
           n_verts == IF cut THEN remaining ELSE count
       IN  IF cut /\ remaining <= 0
           THEN /\ warnings' = Append(warnings, TruncationWarning)
                /\ pc' = "gltf_mesh"
                /\ UNCHANGED <<all_positions, all_normals, all_uvs,
                               all_joints, all_weights, all_indices,
                               face_count, vertex_offset>>
           ELSE /\ warnings' = IF cut
                               THEN Append(warnings, TruncationWarning)
                               ELSE warnings
                /\ all_positions' = all_positions +
                       (IF cut THEN Slice(prim.pos, n_verts * 3)
                        ELSE prim.pos)
                /\ all_normals' = all_normals +
                       AttrLen(prim, "NORMAL", 3, count, cut, n_verts)
                /\ all_uvs' = all_uvs +
                       AttrLen(prim, "TEXCOORD_0", 2, count, cut, n_verts)
                /\ all_joints' = all_joints +
                       AttrLen(prim, "JOINTS_0", 4, count, cut, n_verts)
                /\ all_weights' = all_weights +
                       AttrLen(prim, "WEIGHTS_0", 4, count, cut, n_verts)
                /\ IF prim.has_indices
                   THEN /\ all_indices' = all_indices \o
                               Shift(prim.indices, vertex_offset)
                        /\ face_count' = face_count + Len(prim.indices) \div 3
                   ELSE /\ all_indices' = all_indices \o
                               SequentialTriangles(0, n_verts, vertex_offset)
                        /\ face_count' = face_count + n_verts \div 3
                /\ vertex_offset' = vertex_offset + n_verts
                /\ pc' = pc
    /\ UNCHANGED <<callVars, outdir, objVars, truncated, nmesh, json_data,
                   optVars, outVars>>
    /\ Draw("GltfPrimitive", <<prim>>)

\* _extract_gltf_data: a primitive the loop body cannot digest (an
\* attribute that is no accessor index makes read_accessor raise).
GltfPrimitiveRaises ==
    /\ pc = "gltf_prim"
    /\ nread < MaxParts
    /\ ParseError("TypeError")
    /\ UNCHANGED <<callVars, outdir, objVars, accVars, loopVars, optVars>>
    /\ Draw("GltfPrimitiveRaises", <<>>)

\* _extract_gltf_data: the primitives of the mesh are exhausted.
GltfPrimitivesEnd ==
    /\ pc = "gltf_prim"
    /\ pc' = "gltf_mesh"
    /\ UNCHANGED <<callVars, outdir, objVars, accVars, loopVars, optVars,
                   outVars>>
    /\ Draw("GltfPrimitivesEnd", <<>>)

\* _extract_gltf_data: the meshes are exhausted; build the dict.
GltfMeshesEnd ==
    /\ pc = "gltf_mesh"
    /\ geometry' = <<Geometry(all_positions, all_normals, all_uvs,
                              all_indices, face_count, warnings)>>
    /\ pc' = "gltf_materials"
    /\ nread' = 0
    /\ nmesh' = 0
    /\ UNCHANGED <<callVars, outdir, objVars, accVars, json_data, optVars,
                   result, raised>>
    /\ Draw("GltfMeshesEnd", <<>>)

\* ------------------------------------------------------------ glTF, optional data
\* What skeleton extraction meets: a non-empty "skins", the joints of
\* skins[0] mapped to bones before the loop ends or (raises) an exception
\* stops it.  Nothing can raise unless skins and all_joints are non-empty.
GltfSkeletonInputs ==
    {[skins |-> FALSE, joints |-> {}, raises |-> FALSE],
     [skins |-> TRUE, joints |-> {}, raises |-> FALSE],
     [skins |-> TRUE, joints |-> {0, 1}, raises |-> FALSE],
     [skins |-> TRUE, joints |-> {0}, raises |-> TRUE]}

\* _extract_gltf_data, "Materials": texture_files is bound outside the
\* try, so the textures written before an exception stay in the result.
GltfMaterials(m) ==
    /\ pc = "gltf_materials"
    /\ outdir' = outdir \cup Range0(TextureFiles(m.ntex))
    /\ failed' = IF m.raises THEN failed \cup {"materials"} ELSE failed
    /\ geometry' =
           <<[(IF ~m.raises /\ m.nmat > 0
               THEN WithKey(geometry[1], "materials") ELSE geometry[1])
              EXCEPT !.texture_files = TextureFiles(m.ntex)]>>
    /\ pc' = "gltf_skeleton"
    /\ UNCHANGED <<callVars, objVars, accVars, loopVars, bone_id_to_index,
                   result, raised>>
    /\ Draw("GltfMaterials", <<m>>)

\* _extract_gltf_data, "Skeleton": joint_to_bone (kept in
\* bone_id_to_index) grows inside the loop; result["skeleton"] carries
\* all_joints and all_weights as they are.
GltfSkeleton(s) ==
    /\ pc = "gltf_skeleton"
    /\ IF s.skins /\ all_joints > 0
       THEN /\ bone_id_to_index' = s.joints
            /\ IF s.raises
               THEN LogAndContinue("skeleton")
               ELSE /\ geometry' =
                        <<[WithKey(geometry[1], "skeleton")
                           EXCEPT !.bone_indices = all_joints,
                                  !.bone_weights = all_weights]>>
                    /\ UNCHANGED failed
       ELSE UNCHANGED <<bone_id_to_index, geometry, failed>>
    /\ pc' = "gltf_animations"
    /\ UNCHANGED <<callVars, outdir, objVars, accVars, loopVars, result,
                   raised>>
    /\ Draw("GltfSkeleton", <<s>>)

\* _extract_gltf_data, "Animations": skipped unless "animations" and
\* joint_to_bone are non-empty.
GltfAnimations(a) ==
    /\ pc = "gltf_animations"
    /\ IF a.anims = 0 \/ bone_id_to_index = {}
       THEN UNCHANGED <<geometry, failed>>
       ELSE IF a.raises
       THEN LogAndContinue("animations")
       ELSE /\ geometry' = <<WithKey(geometry[1], "animations")>>
            /\ UNCHANGED failed
    /\ pc' = "write"
    /\ UNCHANGED <<callVars, outdir, objVars, accVars, loopVars,
                   bone_id_to_index, result, raised>>
    /\ Draw("GltfAnimations", <<a>>)

Next ==
    \/ \E sfx \in Suffixes : process(sfx)
    \/ \E readable \in BOOLEAN : ObjRead(readable)
    \/ \E kind \in {"v", "vn", "vt", "other", "bad"} : ObjLine(kind)
    \/ ObjFaceBegin
    \/ \E tok \in FaceTokens : ObjFaceVertex(tok)
    \/ ObjFaceBadToken
    \/ ObjFaceEnd
    \/ ObjEof
    \/ \E readable \in BOOLEAN, hdr \in FbxHeaders : FbxOpen(readable, hdr)
    \/ \E tree \in FbxTrees : FbxReadNodes(tree)
    \/ \E geom \in GeometryNodes : FbxGeometry(geom)
    \/ FbxGeometryRaises
    \/ FbxGeometryEnd
    \/ \E m \in MaterialInputs : FbxMaterials(m)
    \/ \E s \in FbxSkeletonInputs : FbxSkeleton(s)
    \/ \E a \in AnimationInputs : FbxAnimations(a)
    \/ \E readable \in BOOLEAN, json \in JsonValues, buffers_ok \in BOOLEAN :
           GltfOpen(readable, json, buffers_ok)
    \/ \E readable \in BOOLEAN, hdr \in GlbHeaders : GlbOpen(readable, hdr)
    \/ \E chunk \in GlbChunks : GlbChunk(chunk)
    \/ GlbChunksEnd
    \/ GltfMesh
    \/ \E prim \in GltfPrimitives : GltfPrimitive(prim)
    \/ GltfPrimitiveRaises
    \/ GltfPrimitivesEnd
    \/ GltfMeshesEnd
    \/ \E m \in MaterialInputs : GltfMaterials(m)
    \/ \E s \in GltfSkeletonInputs : GltfSkeleton(s)
    \/ \E a \in AnimationInputs : GltfAnimations(a)
    \/ \E dir_ok \in BOOLEAN : WriteGeometry(dir_ok)

Spec == Init /\ [][Next]_vars

\* ------------------------------------------------------------ OBJ, at the ceiling
\* _parse_obj in the middle of a file, after "v" lines and one face line
\* whose _MAX_VERTICES tokens were all new: the ceiling is reached and
\* nothing is truncated yet.  SpecCeiling reads the rest of such a file.
EmittedTokens == <<<<1, 0, 0>>, <<2, 0, 1>>, <<3, 1, 1>>>>

InitCeiling ==
    /\ pc = "obj_line"
    /\ suffix = ".obj"
    /\ src = [NoSource EXCEPT !.readable = TRUE]
    /\ outdir = {}
    /\ positions \in 0..4
    /\ normals = 0
    /\ uvs = 0
    /\ vertex_map =
           [k \in {TokenKey(EmittedTokens[i]) : i \in 1.._MAX_VERTICES} |->
               (CHOOSE i \in 1.._MAX_VERTICES :
                    TokenKey(EmittedTokens[i]) = k) - 1]
    /\ face_vertices = <<>>
    /\ ntok = 0
    /\ all_positions = 3 * _MAX_VERTICES
    /\ all_normals = 0
    /\ all_uvs = 0
    /\ all_joints = 0
    /\ all_weights = 0
    /\ all_indices = Fan([i \in 1.._MAX_VERTICES |-> i - 1])
    /\ face_count = FanCount([i \in 1.._MAX_VERTICES |-> i - 1])
    /\ vertex_offset = 0
    /\ truncated = FALSE
    /\ warnings = <<>>
    /\ nread = 0
    /\ nmesh = 0
    /\ json_data = "None"
    /\ bone_id_to_index = {}
    /\ failed = {}
    /\ geometry = <<>>
    /\ result = <<>>
    /\ raised = <<>>
    /\ recording = FALSE
    /\ file = <<>>
    /\ todo = <<>>
    /\ first = <<>>
    /\ arg = <<>>
    /\ ret = <<>>
    /\ SideIdle

NextObj ==
    \/ \E kind \in {"v", "vn", "vt", "other", "bad"} : ObjLine(kind)
    \/ ObjFaceBegin
    \/ \E tok \in FaceTokens : ObjFaceVertex(tok)
    \/ ObjFaceBadToken
    \/ ObjFaceEnd
    \/ ObjEof
    \/ \E dir_ok \in BOOLEAN : WriteGeometry(dir_ok)

SpecCeiling == InitCeiling /\ [][NextObj]_vars

\* ------------------------------------------------------------ the same file twice
\* SpecTwice writes down the items a call of process draws and then calls
\* process again on the same items.  Everything process and the decoders
\* work on is a local of the call (model3d.py has no module-level or
\* class-level mutable state), so the second call starts from InitProcess;
\* only the output directory outlives a call.
InitRecorded ==
    /\ InitProcess
    /\ recording = TRUE
    /\ file = <<>>
    /\ todo = <<>>
    /\ first = <<>>
    /\ arg = <<>>
    /\ ret = <<>>
    /\ SideIdle

\* A second call whose lists are those the first call left behind, as
\* they would be were they shared between calls.
SecondCallSharedLists ==
    /\ pc \in {"returned", "raised"}
    /\ recording /\ first = <<>>
    /\ first' = <<[result |-> result, geometry |-> geometry,
                   raised |-> raised]>>
    /\ todo' = file
    /\ file' = <<>>
    /\ pc' = "idle"
    /\ suffix' = ""
    /\ src' = NoSource
    /\ positions' = 0 /\ normals' = 0 /\ uvs' = 0
    /\ vertex_map' = <<>>
    /\ face_vertices' = <<>>
    /\ ntok' = 0
    /\ all_normals' = 0 /\ all_uvs' = 0
    /\ all_joints' = 0 /\ all_weights' = 0
    /\ face_count' = 0
    /\ vertex_offset' = 0
    /\ truncated' = FALSE
    /\ nread' = 0 /\ nmesh' = 0
    /\ json_data' = "None"
    /\ bone_id_to_index' = {}
    /\ failed' = {}
    /\ geometry' = <<>> /\ result' = <<>> /\ raised' = <<>>
    /\ UNCHANGED <<outdir, all_positions, all_indices, warnings, recording,
                   fnVars, sideVars>>

\* process is called again on the file of the first call, with the output
\* directory the first call wrote into.
SecondCall ==
    /\ pc \in {"returned", "raised"}
    /\ recording /\ first = <<>>
    /\ first' = <<[result |-> result, geometry |-> geometry,
                   raised |-> raised]>>
    /\ todo' = file
    /\ file' = <<>>
    /\ pc' = "idle"
    /\ suffix' = ""
    /\ src' = NoSource
    /\ positions' = 0 /\ normals' = 0 /\ uvs' = 0
    /\ vertex_map' = <<>>
    /\ face_vertices' = <<>>
    /\ ntok' = 0
    /\ all_positions' = 0 /\ all_normals' = 0 /\ all_uvs' = 0
    /\ all_joints' = 0 /\ all_weights' = 0
    /\ all_indices' = <<>>
    /\ face_count' = 0
    /\ vertex_offset' = 0
    /\ truncated' = FALSE
    /\ warnings' = <<>>
    /\ nread' = 0 /\ nmesh' = 0
    /\ json_data' = "None"
    /\ bone_id_to_index' = {}
    /\ failed' = {}
    /\ geometry' = <<>> /\ result' = <<>> /\ raised' = <<>>
    /\ UNCHANGED <<outdir, recording, fnVars, sideVars>>

\* The Geometry nodes and the primitives of the files that are read twice:
\* a part of those of Next, with meshes below and above the ceiling, and a
\* mesh of two control points whose one polygon names the first twice.
TwiceGeometryNodes ==
    {g \in GeometryNodes :
        /\ g.subtype = "Mesh" /\ g.has_vertices => g.raw_verts \in {9, 12}
        /\ g.pvi \in {<<>>, <<0, 1, -3>>, <<0, 1, -3, 2, 1, -4>>}
        /\ g.normals = g.uvs}
    \cup {[subtype |-> "Mesh", has_vertices |-> TRUE, raw_verts |-> 6,
           has_pvi |-> TRUE, pvi |-> <<0, 1, -1>>, normals |-> FALSE,
           uvs |-> FALSE]}

TwicePrimitives ==
    {p \in GltfPrimitives :
        /\ p.pos \in {3, 12}
        /\ p.attrs \in {{}, {"NORMAL", "TEXCOORD_0", "JOINTS_0", "WEIGHTS_0"}}}

NextTwice ==
    \/ \E sfx \in Suffixes : process(sfx)
    \/ \E readable \in BOOLEAN : ObjRead(readable)
    \/ \E kind \in {"v", "vn", "vt", "other", "bad"} : ObjLine(kind)
    \/ ObjFaceBegin
    \/ \E tok \in FaceTokens : ObjFaceVertex(tok)
    \/ ObjFaceBadToken
    \/ ObjFaceEnd
    \/ ObjEof
    \/ \E readable \in BOOLEAN, hdr \in FbxHeaders : FbxOpen(readable, hdr)
    \/ \E tree \in FbxTrees : FbxReadNodes(tree)
    \/ \E geom \in TwiceGeometryNodes : FbxGeometry(geom)
    \/ FbxGeometryRaises
    \/ FbxGeometryEnd
    \/ \E m \in MaterialInputs : FbxMaterials(m)
    \/ \E s \in FbxSkeletonInputs : FbxSkeleton(s)
    \/ \E a \in AnimationInputs : FbxAnimations(a)
    \/ \E readable \in BOOLEAN, json \in JsonValues, buffers_ok \in BOOLEAN :
           GltfOpen(readable, json, buffers_ok)
    \/ \E readable \in BOOLEAN, hdr \in GlbHeaders : GlbOpen(readable, hdr)
    \/ \E chunk \in GlbChunks : GlbChunk(chunk)
    \/ GlbChunksEnd
    \/ GltfMesh
    \/ \E prim \in TwicePrimitives : GltfPrimitive(prim)
    \/ GltfPrimitiveRaises
    \/ GltfPrimitivesEnd
    \/ GltfMeshesEnd
    \/ \E m \in MaterialInputs : GltfMaterials(m)
    \/ \E s \in GltfSkeletonInputs : GltfSkeleton(s)
    \/ \E a \in AnimationInputs : GltfAnimations(a)
    \/ \E dir_ok \in BOOLEAN : WriteGeometry(dir_ok)
    \/ SecondCall

SpecTwice == InitRecorded /\ [][NextTwice]_vars

\* ------------------------------------------------------------ helpers called on their own
\* The helpers below are functions of their arguments.  SpecFn calls one
\* helper once: arg holds <<name, input>>, ret receives the value.

\* The same lookup without the dictionary: the bone's id taken as an index.
RawBoneId(s, x) == x

\* The 0-based position of x in the sequence s, -1 when it is absent:
\* {bid: i for i, bid in enumerate(ordered)}.get(x, -1).
bone_id_to_index_get(s, x) ==
    IF \E i \in 1..Len(s) : s[i] = x
    THEN (CHOOSE i \in 1..Len(s) : s[i] = x) - 1
    ELSE -1

\* The bone Models of an FBX file are numbered 1..n in file order; id 0 is
\* an object that is no bone.  c2p[b] lists the ids b is connected to.
\* The first connected id that is a bone candidate, 0 when there is none.
RECURSIVE FirstCandidate(_, _)
FirstCandidate(parents, n) ==
    IF parents = <<>> THEN 0
    ELSE IF Head(parents) \in 1..n THEN Head(parents)
    ELSE FirstCandidate(Tail(parents), n)

bone_parent(c2p, n) == [b \in 1..n |-> FirstCandidate(c2p[b], n)]

\* The bones whose parent is p, in file order (p = 0: the root bones).
RECURSIVE BonesUnder(_, _, _, _)
BonesUnder(c2p, n, p, b) ==
    IF b > n THEN <<>>
    ELSE (IF bone_parent(c2p, n)[b] = p THEN <<b>> ELSE <<>>)
             \o BonesUnder(c2p, n, p, b + 1)

root_bones(c2p, n) == BonesUnder(c2p, n, 0, 1)

bone_children(c2p, n, bid) == BonesUnder(c2p, n, bid, 1)

\* while queue and len(ordered) < _MAX_BONES.
RECURSIVE Ordered(_, _, _, _)
Ordered(c2p, n, queue, ordered) ==
    IF queue = <<>> \/ Len(ordered) >= _MAX_BONES THEN ordered
    ELSE Ordered(c2p, n, Tail(queue) \o bone_children(c2p, n, Head(queue)),
                 Append(ordered, Head(queue)))

\* The "parent" entries of the bones _extract_fbx_skeleton returns.
_extract_fbx_skeleton(in) ==
    LET ordered == Ordered(in.c2p, in.n, root_bones(in.c2p, in.n), <<>>)
    IN  [i \in 1..Len(ordered) |->
            IF bone_parent(in.c2p, in.n)[ordered[i]] = 0 THEN -1
            ELSE bone_id_to_index_get(
                     ordered, bone_parent(in.c2p, in.n)[ordered[i]])]

\* What one bone can be connected to: nothing, one id, or an object that is
\* no bone and then a bone.
ParentLists(n) ==
    {<<>>} \cup {<<p>> : p \in 0..n} \cup {<<0, p>> : p \in 1..n}

FbxBoneInputs ==
    UNION {{[n |-> n, c2p |-> c] : c \in [1..n -> ParentLists(n)]} :
               n \in 0..MaxBoneNodes}

\* glTF: the nodes are numbered 0..n-1; children[i + 1] lists the children
\* of node i, and joints is skins[0].joints.
\* node_parents[child] = i, a later node overwriting an earlier one.
node_parents_get(children, child) ==
    LET listing == {i \in 1..Len(children) :
                       \E k \in 1..Len(children[i]) : children[i][k] = child}
    IN  IF listing = {} THEN <<>>
        ELSE <<(CHOOSE i \in listing : \A j \in listing : j <= i) - 1>>

\* joint_to_bone.get(pn, -1) before bone number bone_idx is entered: the
\* last of the earlier bones whose joint is node pn.
joint_to_bone_get(joints, bone_idx, pn) ==
    LET earlier == {b \in 1..bone_idx : joints[b] = pn}
    IN  IF earlier = {} THEN -1
        ELSE (CHOOSE b \in earlier : \A c \in earlier : c <= b) - 1

\* The "parent" entries of the bones the glTF skeleton stage builds.
GltfBones(in) ==
    LET count == IF Len(in.joints) < _MAX_BONES THEN Len(in.joints)
                 ELSE _MAX_BONES
    IN  [i \in 1..count |->
            LET pn == node_parents_get(in.children, in.joints[i])
            IN  IF pn = <<>> THEN -1
                ELSE joint_to_bone_get(in.joints, i - 1, pn[1])]

ChildLists(n) == {<<>>} \cup {<<c>> : c \in 0..(n - 1)}

GltfBoneInputs ==
    UNION {{[children |-> ch, joints |-> j] :
                ch \in [1..n -> ChildLists(n)],
                j \in UNION {[1..k -> 0..(n - 1)] : k \in 1..MaxJoints}} :
               n \in 1..MaxNodes}

ExtractFbxSkeleton ==
    /\ arg # <<>> /\ ret = <<>>
    /\ arg[1] = "_extract_fbx_skeleton"
    /\ ret' = <<_extract_fbx_skeleton(arg[2])>>
    /\ UNCHANGED <<pc, callVars, outdir, objVars, accVars, loopVars, optVars,
                   outVars, histVars, arg, sideVars>>

GltfSkeletonBones ==
    /\ arg # <<>> /\ ret = <<>>
    /\ arg[1] = "gltf_bones"
    /\ ret' = <<GltfBones(arg[2])>>
    /\ UNCHANGED <<pc, callVars, outdir, objVars, accVars, loopVars, optVars,
                   outVars, histVars, arg, sideVars>>

\* FBX skin weights of one output vertex.  The weights a file gives are
\* whole multiples of a unit; a normalised weight is held in millionths,
\* which is what round(w, 6) keeps of it.
WeightScale == 1000000

\* The weight left as the file gave it.
Unnormalized(w, total) == w * WeightScale

\* round(w / total if total > 0 else 0.0, 6), to the nearest millionth and
\* to the even one on a tie.
Normalized(w, total) ==
    IF total <= 0 THEN 0
    ELSE LET q == (w * WeightScale) \div total
             r == (w * WeightScale) % total
         IN  IF 2 * r < total THEN q
             ELSE IF 2 * r > total THEN q + 1
             ELSE IF q % 2 = 0 THEN q ELSE q + 1

\* influences[exp_idx]: the (bone_idx, w) pairs of the clusters' entries
\* for this vertex, entries with w <= 0 skipped.  Cluster i is bone i - 1.
RECURSIVE Influences(_, _)
Influences(wt, i) ==
    IF i > Len(wt) THEN <<>>
    ELSE (IF wt[i] <= 0 THEN <<>> ELSE <<<<i - 1, wt[i]>>>>)
             \o Influences(wt, i + 1)

\* inf.sort(key=lambda x: x[1], reverse=True): a stable sort, so pairs of
\* equal weight keep their order.
RECURSIVE InsertByWeight(_, _)
InsertByWeight(sorted, pair) ==
    IF sorted = <<>> THEN <<pair>>
    ELSE IF Head(sorted)[2] >= pair[2]
         THEN <<Head(sorted)>> \o InsertByWeight(Tail(sorted), pair)
         ELSE <<pair>> \o sorted

RECURSIVE SortByWeight(_)
SortByWeight(inf) ==
    IF inf = <<>> THEN <<>>
    ELSE InsertByWeight(SortByWeight(SubSeq(inf, 1, Len(inf) - 1)),
                        inf[Len(inf)])

RECURSIVE SumWeights(_)
SumWeights(pairs) ==
    IF pairs = <<>> THEN 0 ELSE Head(pairs)[2] + SumWeights(Tail(pairs))

\* The four bone indices and the four weights of one vertex.
TopFour(wt) ==
    LET inf == SortByWeight(Influences(wt, 1))
        top4 == SubSeq(inf, 1, IF Len(inf) < 4 THEN Len(inf) ELSE 4)
        total == SumWeights(top4)
    IN  [bi |-> [k \in 1..4 |-> IF k <= Len(top4) THEN top4[k][1] ELSE 0],
         bw |-> [k \in 1..4 |->
                    IF k <= Len(top4) THEN Normalized(top4[k][2], total)
                    ELSE 0]]

WeightValues == {0, 1, 2, 5}

WeightInputs == UNION {[1..k -> WeightValues] : k \in 0..MaxInfluences}

NormalizeWeights ==
    /\ arg # <<>> /\ ret = <<>>
    /\ arg[1] = "top4"
    /\ ret' = <<TopFour(arg[2])>>
    /\ UNCHANGED <<pc, callVars, outdir, objVars, accVars, loopVars, optVars,
                   outVars, histVars, arg, sideVars>>

\* Keyframe decimation of one animation curve of n samples (n >= 1: a curve
\* without samples gives no track).
\* list(range(0, n, step)).
RECURSIVE RangeStep(_, _, _)
RangeStep(i, n, step) ==
    IF i >= n THEN <<>> ELSE <<i>> \o RangeStep(i + step, n, step)

\* step = max(1, n // _MAX_KEYFRAMES); si = list(range(0, n, step)); the
\* last sample is appended when the stride missed it.
SampleIndices(n) ==
    LET step == IF n \div _MAX_KEYFRAMES > 1 THEN n \div _MAX_KEYFRAMES
                ELSE 1
        si == RangeStep(0, n, step)
    IN  IF si # <<>> /\ si[Len(si)] # n - 1 THEN Append(si, n - 1) ELSE si

CurveLengths == 1..MaxCurveLen

FbxKeyframes ==
    /\ arg # <<>> /\ ret = <<>>
    /\ arg[1] = "fbx_keyframes"
    /\ ret' = <<SampleIndices(arg[2])>>
    /\ UNCHANGED <<pc, callVars, outdir, objVars, accVars, loopVars, optVars,
                   outVars, histVars, arg, sideVars>>

GltfKeyframes ==
    /\ arg # <<>> /\ ret = <<>>
    /\ arg[1] = "gltf_keyframes"
    /\ ret' = <<SampleIndices(arg[2])>>
    /\ UNCHANGED <<pc, callVars, outdir, objVars, accVars, loopVars, optVars,
                   outVars, histVars, arg, sideVars>>

\* _compute_bounds.  A coordinate is a whole number of ten-millionths, so
\* that round(v, 6), which keeps millionths, has something to round.
\* num / den to the nearest whole number, to the even one on a tie.
RoundHalfEven(num, den) ==
    LET q == num \div den
        r == num % den
    IN  IF 2 * r < den THEN q
        ELSE IF 2 * r > den THEN q + 1
        ELSE IF q % 2 = 0 THEN q ELSE q + 1

\* round(v, 6) of a coordinate, in millionths.
Round6(v) == RoundHalfEven(v, 10)

\* An accumulator is <<>> for float("inf") / float("-inf") and <<x>> for x.
\* The first value seen kept, whatever comes later.
KeepFirst(acc, v) == IF acc = <<>> THEN <<v>> ELSE acc

\* min(min_v[j], v) and max(max_v[j], v).
MinOf(acc, v) == IF acc = <<>> \/ v < acc[1] THEN <<v>> ELSE acc

MaxOf(acc, v) == IF acc = <<>> \/ v > acc[1] THEN <<v>> ELSE acc

\* The loop over i in range(0, len(positions), 3) for axis j (0-based),
\* with its guard i + j < len(positions).
RECURSIVE min_v(_, _, _, _)
min_v(flat, j, i, acc) ==
    IF i >= Len(flat) THEN acc
    ELSE min_v(flat, j, i + 3,
               IF i + j < Len(flat) THEN MinOf(acc, flat[i + j + 1])
               ELSE acc)

RECURSIVE max_v(_, _, _, _)
max_v(flat, j, i, acc) ==
    IF i >= Len(flat) THEN acc
    ELSE max_v(flat, j, i + 3,
               IF i + j < Len(flat) THEN MaxOf(acc, flat[i + j + 1])
               ELSE acc)

\* The record returned, its components in millionths.  The accumulators
\* are all set when the list is made of whole triples.
_compute_bounds(flat) ==
    IF flat = <<>>
    THEN [min |-> <<0, 0, 0>>, max |-> <<0, 0, 0>>, center |-> <<0, 0, 0>>]
    ELSE LET lo == [j \in 1..3 |-> min_v(flat, j - 1, 0, <<>>)[1]]
             hi == [j \in 1..3 |-> max_v(flat, j - 1, 0, <<>>)[1]]
         IN  [min |-> [j \in 1..3 |-> Round6(lo[j])],
              max |-> [j \in 1..3 |-> Round6(hi[j])],
              center |-> [j \in 1..3 |-> RoundHalfEven(lo[j] + hi[j], 20)]]

\* -1, half a millionth and 1.6 millionths.
CoordinateValues == {-10000000, 5, 16}

\* The positions (0,0,0), (1,2,3), (-1,0,5).
ExamplePositions ==
    <<0, 0, 0, 10000000, 20000000, 30000000, -10000000, 0, 50000000>>

PositionLists ==
    UNION {[1..(3 * k) -> CoordinateValues] : k \in 0..MaxTriples}
        \cup {ExamplePositions}

ComputeBounds ==
    /\ arg # <<>> /\ ret = <<>>
    /\ arg[1] = "_compute_bounds"
    /\ ret' = <<_compute_bounds(arg[2])>>
    /\ UNCHANGED <<pc, callVars, outdir, objVars, accVars, loopVars, optVars,
                   outVars, histVars, arg, sideVars>>

\* Triangulation on its own.
\* The output indices of the vertices of one OBJ face line.
FaceVertexLists == UNION {[1..k -> 0..3] : k \in 0..MaxFaceLen}

\* PolygonVertexIndex arrays: those of the Geometry nodes and a pentagon
\* followed by a triangle.
PolygonArrays == PviArrays \cup {<<0, 1, 2, 3, -5, 4, 0, -2>>}

\* _parse_obj: the fan loop over the face_vertices of one face line.
ObjFan ==
    /\ arg # <<>> /\ ret = <<>>
    /\ arg[1] = "obj_face"
    /\ ret' = <<[indices |-> Fan(arg[2]), faces |-> FanCount(arg[2])]>>
    /\ UNCHANGED <<pc, callVars, outdir, objVars, accVars, loopVars, optVars,
                   outVars, histVars, arg, sideVars>>

\* _parse_fbx: the polygons of one PolygonVertexIndex array, expanded and
\* fanned.
FbxFan ==
    /\ arg # <<>> /\ ret = <<>>
    /\ arg[1] = "fbx_polygons"
    /\ LET mesh == ExpandPolygons(SplitPolygons(arg[2], <<>>, <<>>),
                                  0, <<>>, 0)
       IN  ret' = <<[indices |-> mesh.mesh_indices,
                     faces |-> mesh.mesh_face_count]>>
    /\ UNCHANGED <<pc, callVars, outdir, objVars, accVars, loopVars, optVars,
                   outVars, histVars, arg, sideVars>>

\* One call of one helper.
\* _extract_fbx_animations: the d|X, d|Y and d|Z curves of one
\* AnimationCurveNode merged into a track.  arg[2] gives the number of
\* samples of the three curves in that order, 0 for a curve that is not in
\* curves (a curve is entered only with non-empty times and values).  A
\* sample stands for its index in its curve; -1 stands for the 0.0 written
\* where a curve has no sample.  The node gives no track ("master" is "")
\* when none of the three curves has samples.
MergeChannels ==
    /\ arg # <<>> /\ ret = <<>>
    /\ arg[1] = "fbx_track"
    /\ LET xd == arg[2][1]
           yd == arg[2][2]
           zd == arg[2][3]
           master == IF xd > 0 THEN "d|X" ELSE IF yd > 0 THEN "d|Y"
                     ELSE IF zd > 0 THEN "d|Z" ELSE ""
           n == IF xd > 0 THEN xd ELSE IF yd > 0 THEN yd ELSE zd
           si == SampleIndices(n)
       IN  ret' = <<[master |-> master,
                     times |-> IF master = "" THEN <<>> ELSE si,
                     values |->
                         IF master = "" THEN <<>>
                         ELSE [k \in 1..(3 * Len(si)) |->
                                  LET i == si[(k + 2) \div 3]
                                      len == arg[2][((k - 1) % 3) + 1]
                                  IN  IF i < len THEN i ELSE -1]]>>
    /\ UNCHANGED <<pc, callVars, outdir, objVars, accVars, loopVars, optVars,
                   outVars, histVars, arg, sideVars>>

\* The polygon loops on their own.
\* PolygonVertexIndex arrays as the file may hold them: every array of up
\* to MaxIndexLen entries, closed or open at its end, and the longer ones
\* of PolygonArrays.
RawIndexArrays ==
    UNION {[1..k -> -3..2] : k \in 0..MaxIndexLen} \cup PolygonArrays

\* _parse_fbx, "Build polygons": the polygons list after the loop over
\* raw_indices.
BuildPolygons ==
    /\ arg # <<>> /\ ret = <<>>
    /\ arg[1] = "build_polygons"
    /\ ret' = <<SplitPolygons(arg[2], <<>>, <<>>)>>
    /\ UNCHANGED <<pc, callVars, outdir, objVars, accVars, loopVars, optVars,
                   outVars, histVars, arg, sideVars>>

FnInputs ==
    {<<"_extract_fbx_skeleton", in>> : in \in FbxBoneInputs}
        \cup {<<"gltf_bones", in>> : in \in GltfBoneInputs}
        \cup {<<"top4", in>> : in \in WeightInputs}
        \cup {<<"fbx_keyframes", n>> : n \in CurveLengths}
        \cup {<<"gltf_keyframes", n>> : n \in CurveLengths}
        \cup {<<"_compute_bounds", in>> : in \in PositionLists}
        \cup {<<"obj_face", in>> : in \in FaceVertexLists}
        \cup {<<"fbx_polygons", in>> : in \in PolygonArrays}
        \cup {<<"build_polygons", in>> : in \in RawIndexArrays}
        \cup {<<"fbx_track", in>> : in \in [1..3 -> 0..MaxChannelLen]}

InitFn ==
    /\ InitProcess
    /\ recording = FALSE
    /\ file = <<>>
    /\ todo = <<>>
    /\ first = <<>>
    /\ arg \in FnInputs
    /\ ret = <<>>
    /\ SideIdle

NextFn ==
    \/ ExtractFbxSkeleton
    \/ GltfSkeletonBones
    \/ NormalizeWeights
    \/ FbxKeyframes
    \/ GltfKeyframes
    \/ ComputeBounds
    \/ ObjFan
    \/ FbxFan
    \/ BuildPolygons
    \/ MergeChannels

SpecFn == InitFn /\ [][NextFn]_vars

\* ------------------------------------------------------------ FBX reader
\* _FbxBinaryReader on a buffer that passed the header check of __init__.
\* The buffer is kept by fields, one cell per field: the file header (27
\* bytes) is the cell at offset 0, a node record header (13 bytes, 25 in
\* the 64-bit layout) is the four cells end_offset, num_props,
\* prop_list_len, name_len, and the all-zero record that closes a node
\* list, _sentinel_size bytes, is as long as a record header.  Offsets count
\* from 0 as in the code, so the cell at offset o is data[o + 1].
_sentinel_size == 4

\* offset = 27 in read_all_nodes.
FileHeaderSize == 1

\* Well-formed files.  A node "n" with one "C" property; a node with one
\* child; a node with an "S" property followed by a second node; a node
\* with an array property.
WellFormedBuffers ==
    {<<0, 8, 1, 2, 1, 7, 1, 1, 0, 0, 0, 0>>,
     <<0, 13, 0, 0, 0, 9, 0, 0, 0, 0, 0, 0, 0, 0, 0, 0, 0>>,
     <<0, 8, 1, 3, 0, 2, 1, 7, 12, 0, 0, 0, 0, 0, 0, 0>>,
     <<0, 9, 1, 4, 0, 3, 1, 1, 7, 0, 0, 0, 0>>}

\* The files the reader is given: a well-formed file, a file cut short
\* after any number of cells, or a file with one field overwritten.
Buffers ==
    UNION {{SubSeq(b, 1, k) : k \in FileHeaderSize..Len(b)}
               \cup {[b EXCEPT ![k] = v] :
                         k \in (FileHeaderSize + 1)..Len(b), v \in 0..MaxCell} :
           b \in WellFormedBuffers}

\* _read_property at offset o: [raised, po].  data[o] past the end raises
\* IndexError and struct.unpack_from past the end raises struct.error
\* (both "IndexError" here); a slice past the end is cut short silently.
\* Type codes: 1 stands for the fixed-width scalars ("C": one cell of
\* payload), 2 for the length-prefixed "S" and "R", 3 for the arrays
\* (arr_len, comp_len, then comp_len cells, uncompressed, of which arr_len
\* elements are unpacked); every other code raises ValueError.
_read_property(o) ==
    LET Raise(e) == [raised |-> e, po |-> o]
        Return(p) == [raised |-> "", po |-> p]
        InData(x) == x < Len(data)
    IN  IF ~InData(o) THEN Raise("IndexError")
        ELSE LET type_code == data[o + 1]
             IN  IF type_code = 1
                 THEN IF InData(o + 1) THEN Return(o + 2)
                      ELSE Raise("IndexError")
                 ELSE IF type_code = 2
                 THEN IF InData(o + 1) THEN Return(o + 2 + data[o + 2])
                      ELSE Raise("IndexError")
                 ELSE IF type_code = 3
                 THEN IF ~InData(o + 2) THEN Raise("IndexError")
                      ELSE LET arr_len == data[o + 2]
                               comp_len == data[o + 3]
                               stop == IF o + 3 + comp_len < Len(data)
                                       THEN o + 3 + comp_len ELSE Len(data)
                               raw == IF stop > o + 3 THEN stop - (o + 3)
                                      ELSE 0
                           IN  IF arr_len > raw THEN Raise("IndexError")
                               ELSE Return(o + 3 + comp_len)
                 ELSE Raise("ValueError")

\* for _ in range(num_props): prop, po = self._read_property(po).
RECURSIVE ReadProperties(_, _)
ReadProperties(po, num_props) ==
    IF num_props = 0 THEN [raised |-> "", po |-> po]
    ELSE LET r == _read_property(po)
         IN  IF r.raised # "" THEN r
             ELSE ReadProperties(r.po, num_props - 1)

\* read_all_nodes: the while test.
ReadAllNodes ==
    /\ rpc = "top"
    /\ IF read_offset < Len(data) - _sentinel_size
       THEN rpc' = "node" /\ at' = read_offset
       ELSE rpc' = "returned" /\ at' = at
    /\ UNCHANGED <<data, read_offset, read_nodes, stack>>
    /\ UNCHANGED <<pc, callVars, outdir, objVars, accVars, loopVars, optVars,
                   outVars, histVars, fnVars, wsVars, cacheVars>>

\* _read_node(at) up to its child loop.  Returning None makes the caller
\* break: read_all_nodes returns, a _read_node in its child loop leaves the
\* loop.
ReadNode ==
    /\ rpc = "node"
    /\ LET fits == at + _sentinel_size <= Len(data)
           end_offset == data[at + 1]
           num_props == data[at + 2]
           prop_list_len == data[at + 3]
           name_len == data[at + 4]
           prop_data_start == at + _sentinel_size + name_len
           props == ReadProperties(prop_data_start, num_props)
       IN  IF ~fits \/ end_offset = 0
           THEN /\ rpc' = IF stack = <<>> THEN "returned" ELSE "children"
                /\ stack' = IF stack = <<>> THEN stack
                            ELSE [stack EXCEPT ![Len(stack)].broken = TRUE]
           ELSE IF props.raised # ""
           THEN rpc' = props.raised /\ stack' = stack
           ELSE /\ rpc' = "children"
                /\ stack' = Append(stack,
                       [end_offset |-> end_offset,
                        child_offset |-> prop_data_start + prop_list_len,
                        broken |-> FALSE])
    /\ UNCHANGED <<data, read_offset, read_nodes, at>>
    /\ UNCHANGED <<pc, callVars, outdir, objVars, accVars, loopVars, optVars,
                   outVars, histVars, fnVars, wsVars, cacheVars>>

\* _read_node: the while test of the child loop of the innermost call,
\* and its return of (node, end_offset) to the loop that called it.  A
\* call beyond MaxDepth calls deep raises RecursionError.
ReadChildren ==
    /\ rpc = "children"
    /\ LET f == stack[Len(stack)]
           rest == SubSeq(stack, 1, Len(stack) - 1)
       IN  IF ~f.broken /\ f.child_offset < f.end_offset - _sentinel_size
           THEN /\ rpc' = IF Len(stack) >= MaxDepth THEN "RecursionError"
                          ELSE "node"
                /\ at' = f.child_offset
                /\ UNCHANGED <<stack, read_offset, read_nodes>>
           ELSE IF rest = <<>>
           THEN /\ rpc' = "top"
                /\ read_offset' = f.end_offset
                /\ read_nodes' = IF read_nodes < MaxRead THEN read_nodes + 1
                                 ELSE read_nodes
                /\ stack' = rest
                /\ at' = at
           ELSE /\ rpc' = "children"
                /\ stack' = [rest EXCEPT ![Len(rest)].child_offset =
                                             f.end_offset]
                /\ UNCHANGED <<read_offset, read_nodes, at>>
    /\ data' = data
    /\ UNCHANGED <<pc, callVars, outdir, objVars, accVars, loopVars, optVars,
                   outVars, histVars, fnVars, wsVars, cacheVars>>

InitReader ==
    /\ InitProcess
    /\ recording = FALSE
    /\ file = <<>>
    /\ todo = <<>>
    /\ first = <<>>
    /\ arg = <<>>
    /\ ret = <<>>
    /\ data \in Buffers
    /\ rpc = "top"
    /\ read_offset = FileHeaderSize
    /\ read_nodes = 0
    /\ at = 0
    /\ stack = <<>>
    /\ api_key = FALSE
    /\ agent_busy = FALSE
    /\ agent_task = 0
    /\ pending_errors = <<>>
    /\ auto_fix_count = 0
    /\ injected_messages = <<>>
    /\ tasks = <<>>
    /\ source_file = [size |-> 1, contents |-> 1]
    /\ manifest = <<>>
    /\ in_thread = <<>>
    /\ served = <<>>

NextReader ==
    \/ ReadAllNodes
    \/ ReadNode
    \/ ReadChildren

\* read_all_nodes is one synchronous call: it keeps taking steps.
SpecReader == InitReader /\ [][NextReader]_vars /\ WF_vars(NextReader)

\* ------------------------------------------------------ ws_handlers.py
\* The handlers of ws_handlers.py on one WsContext.  A handler runs from
\* its check of ctx to its last assignment without an await in between, so
\* it is one step; a task made by asyncio.create_task starts at some later
\* step and gives way at its awaits, so the start of a scheduled task, the
\* end of a run and the finally block of a task are steps of their own that
\* interleave with the handlers and with one another.  tasks[t] is a task
\* of the event loop: kind "prompt" (_run_agent_task) or "fix"
\* (_trigger_auto_fix), or "free"; phase "scheduled" before its first step,
\* "uploads" in _process_uploaded_files, "run" inside agents.run_agent,
\* "closing" after the run and before the finally block, "done" when the
\* task is over and still referred to.
\* WsContext.MAX_AUTO_FIX, ws_handlers.py:34.
MAX_AUTO_FIX == 3

NoTask ==
    [kind |-> "free", phase |-> "", error_message |-> "", files |-> FALSE,
     cancelled |-> FALSE]

\* asyncio.create_task: the task list with one more scheduled task.
create_task(ts, kind, error_message, files) ==
    LET t == CHOOSE x \in DOMAIN ts :
                 /\ ts[x] = NoTask
                 /\ \A y \in DOMAIN ts : ts[y] = NoTask => x <= y
    IN  [ts EXCEPT ![t] = [kind |-> kind, phase |-> "scheduled",
                           error_message |-> error_message,
                           files |-> files, cancelled |-> FALSE]]

\* _drain_pending_errors on the task list ts: what it leaves of
\* pending_errors and of the task list.
_drain_pending_errors(ts) ==
    IF pending_errors # <<>> /\ auto_fix_count < MAX_AUTO_FIX
    THEN [pending_errors |-> <<>>,
          tasks |-> create_task(ts, "fix", Head(pending_errors), FALSE)]
    ELSE [pending_errors |-> pending_errors, tasks |-> ts]

\* A prompt that starts a run whether or not the agent is busy.
PromptWithoutBusyCheck(text, files) ==
    /\ \E t \in DOMAIN tasks : tasks[t] = NoTask
    /\ api_key /\ files # "bad"
    /\ auto_fix_count' = 0
    /\ agent_busy' = TRUE
    /\ tasks' = create_task(tasks, "prompt", "", files = "some")
    /\ agent_task' =
           CHOOSE t \in DOMAIN tasks : tasks[t] # tasks'[t]
    /\ UNCHANGED <<api_key, pending_errors, injected_messages>>
    /\ UNCHANGED <<pc, callVars, outdir, objVars, accVars, loopVars, optVars,
                   outVars, histVars, fnVars, readerVars, cacheVars>>

\* handle_prompt.  text is "" for a blank message; files is "none",
\* "some", or "bad" when _process_uploads raises ValueError.
handle_prompt(text, files) ==
    /\ \E t \in DOMAIN tasks : tasks[t] = NoTask
    /\ Len(injected_messages) < MaxInjected
    /\ auto_fix_count' = 0
    /\ IF ~api_key
       THEN UNCHANGED <<agent_busy, agent_task, injected_messages, tasks>>
       ELSE IF agent_busy
       THEN /\ injected_messages' =
                   IF text # "" THEN Append(injected_messages, text)
                   ELSE injected_messages
            /\ UNCHANGED <<agent_busy, agent_task, tasks>>
       ELSE IF files = "bad"
       THEN UNCHANGED <<agent_busy, agent_task, injected_messages, tasks>>
       ELSE /\ agent_busy' = TRUE
            /\ tasks' = create_task(tasks, "prompt", "", files = "some")
            /\ agent_task' =
                   CHOOSE t \in DOMAIN tasks : tasks[t] # tasks'[t]
            /\ UNCHANGED injected_messages
    /\ UNCHANGED <<api_key, pending_errors>>
    /\ UNCHANGED <<pc, callVars, outdir, objVars, accVars, loopVars, optVars,
                   outVars, histVars, fnVars, readerVars, cacheVars>>

\* handle_console_error.
handle_console_error(error_msg) ==
    /\ \E t \in DOMAIN tasks : tasks[t] = NoTask
    /\ Len(pending_errors) < MaxPending
    /\ IF error_msg = ""
       THEN UNCHANGED <<pending_errors, tasks>>
       ELSE IF agent_busy
       THEN /\ pending_errors' =
                   IF error_msg \in Range0(pending_errors)
                   THEN pending_errors
                   ELSE Append(pending_errors, error_msg)
            /\ UNCHANGED tasks
       ELSE IF auto_fix_count < MAX_AUTO_FIX
       THEN /\ tasks' = create_task(tasks, "fix", error_msg, FALSE)
            /\ UNCHANGED pending_errors
       ELSE UNCHANGED <<pending_errors, tasks>>
    /\ UNCHANGED <<api_key, agent_busy, agent_task, auto_fix_count,
                   injected_messages>>
    /\ UNCHANGED <<pc, callVars, outdir, objVars, accVars, loopVars, optVars,
                   outVars, histVars, fnVars, readerVars, cacheVars>>

\* handle_cancel_agent: Task.cancel() on a task that is not done.
handle_cancel_agent ==
    /\ IF agent_task # 0 /\ tasks[agent_task].phase # "done"
       THEN tasks' = [tasks EXCEPT ![agent_task].cancelled = TRUE]
       ELSE UNCHANGED tasks
    /\ UNCHANGED <<api_key, agent_busy, agent_task, pending_errors,
                   auto_fix_count, injected_messages>>
    /\ UNCHANGED <<pc, callVars, outdir, objVars, accVars, loopVars, optVars,
                   outVars, histVars, fnVars, readerVars, cacheVars>>

\* One step of the task _trigger_auto_fix(error_message, ctx): its start,
\* the end of agents.run_agent (returning or raising), its finally block.
_trigger_auto_fix(t) ==
    /\ tasks[t].kind = "fix"
    /\ \/ /\ tasks[t].phase = "scheduled"
          /\ IF agent_busy \/ ~api_key
             THEN /\ Len(pending_errors) < MaxPending
                  /\ pending_errors' =
                         Append(pending_errors, tasks[t].error_message)
                  /\ tasks' = [tasks EXCEPT ![t] = NoTask]
                  /\ UNCHANGED <<auto_fix_count, agent_busy>>
             ELSE /\ auto_fix_count' = auto_fix_count + 1
                  /\ agent_busy' = TRUE
                  /\ tasks' = [tasks EXCEPT ![t].phase = "run"]
                  /\ UNCHANGED pending_errors
       \/ /\ tasks[t].phase = "run"
          /\ tasks' = [tasks EXCEPT ![t].phase = "closing"]
          /\ UNCHANGED <<auto_fix_count, agent_busy, pending_errors>>
       \/ /\ tasks[t].phase = "closing"
          /\ agent_busy' = FALSE
          /\ LET d == _drain_pending_errors([tasks EXCEPT ![t] = NoTask])
             IN  pending_errors' = d.pending_errors /\ tasks' = d.tasks
          /\ UNCHANGED auto_fix_count
    /\ UNCHANGED <<api_key, agent_task, injected_messages>>
    /\ UNCHANGED <<pc, callVars, outdir, objVars, accVars, loopVars, optVars,
                   outVars, histVars, fnVars, readerVars, cacheVars>>

\* One step of the task _run_agent_task of handle_prompt: its start (a
\* task cancelled before its first step never runs its body), the end of
\* _process_uploaded_files, a turn boundary of run_agent at which the
\* injected messages are taken, the end of run_agent (returning, raising
\* or cancelled), its finally block.
_run_agent_task(t) ==
    /\ tasks[t].kind = "prompt"
    /\ \/ /\ tasks[t].phase = "scheduled"
          /\ tasks' =
                 [tasks EXCEPT ![t].phase =
                     IF tasks[t].cancelled THEN "done"
                     ELSE IF tasks[t].files THEN "uploads" ELSE "run"]
          /\ UNCHANGED <<agent_busy, agent_task, pending_errors,
                         injected_messages>>
       \/ /\ tasks[t].phase = "uploads"
          /\ \E next \in {"run", "closing"} :
                 /\ tasks[t].cancelled => next = "closing"
                 /\ tasks' = [tasks EXCEPT ![t].phase = next,
                                           ![t].cancelled = FALSE]
          /\ UNCHANGED <<agent_busy, agent_task, pending_errors,
                         injected_messages>>
       \/ /\ tasks[t].phase = "run"
          /\ ~tasks[t].cancelled
          /\ injected_messages # <<>>
          /\ injected_messages' = <<>>
          /\ UNCHANGED <<agent_busy, agent_task, pending_errors, tasks>>
       \/ /\ tasks[t].phase = "run"
          /\ tasks' = [tasks EXCEPT ![t].phase = "closing",
                                    ![t].cancelled = FALSE]
          /\ UNCHANGED <<agent_busy, agent_task, pending_errors,
                         injected_messages>>
       \/ /\ tasks[t].phase = "closing"
          /\ agent_task' = 0
          /\ agent_busy' = FALSE
          /\ injected_messages' = <<>>
          /\ LET d == _drain_pending_errors([tasks EXCEPT ![t] = NoTask])
             IN  pending_errors' = d.pending_errors /\ tasks' = d.tasks
    /\ UNCHANGED <<api_key, auto_fix_count>>
    /\ UNCHANGED <<pc, callVars, outdir, objVars, accVars, loopVars, optVars,
                   outVars, histVars, fnVars, readerVars, cacheVars>>

InitWs ==
    /\ InitProcess
    /\ recording = FALSE
    /\ file = <<>>
    /\ todo = <<>>
    /\ first = <<>>
    /\ arg = <<>>
    /\ ret = <<>>
    /\ data = <<>>
    /\ rpc = "idle"
    /\ read_offset = 0
    /\ read_nodes = 0
    /\ at = 0
    /\ stack = <<>>
    /\ api_key \in BOOLEAN
    /\ agent_busy = FALSE
    /\ agent_task = 0
    /\ pending_errors = <<>>
    /\ auto_fix_count = 0
    /\ injected_messages = <<>>
    /\ tasks = [t \in 1..MaxTasks |-> NoTask]
    /\ source_file = [size |-> 1, contents |-> 1]
    /\ manifest = <<>>
    /\ in_thread = <<>>
    /\ served = <<>>

NextWs ==
    \/ \E text \in {"", "text"}, files \in {"none", "some", "bad"} :
           handle_prompt(text, files)
    \/ \E error_msg \in {"", "e1", "e2"} : handle_console_error(error_msg)
    \/ handle_cancel_agent
    \/ \E t \in 1..MaxTasks : _trigger_auto_fix(t)
    \/ \E t \in 1..MaxTasks : _run_agent_task(t)

SpecWs == InitWs /\ [][NextWs]_vars

\* ------------------------------------------------------ run_pipeline
\* processors/__init__.py: run_pipeline on one source file and one output
\* directory.  The source file is its size (st_size) and its contents, which
\* uploads may overwrite at any time; manifest is <<>> or <<what
\* manifest.json holds>>, with the contents its result was computed from
\* written beside it; in_thread is <<>> or <<the contents proc.process is
\* working on in its thread>>; served is <<>> or <<what the latest call
\* returned>>, emptied when the source file is written again.
WriteSource(size, contents) ==
    /\ source_file # [size |-> size, contents |-> contents]
    /\ source_file' = [size |-> size, contents |-> contents]
    /\ served' = <<>>
    /\ UNCHANGED <<manifest, in_thread>>
    /\ UNCHANGED <<pc, callVars, outdir, objVars, accVars, loopVars, optVars,
                   outVars, histVars, fnVars, readerVars, wsVars>>

\* run_pipeline up to the call of proc.process.  has_processor is whether
\* get_processor finds one.
run_pipeline(has_processor) ==
    /\ in_thread = <<>>
    /\ IF ~has_processor
       THEN /\ served' = <<[cached |-> FALSE, status |-> "None",
                            contents |-> source_file.contents]>>
            /\ UNCHANGED in_thread
       ELSE IF manifest # <<>>
               /\ manifest[1].source_size = source_file.size
       THEN /\ served' = <<[cached |-> TRUE, status |-> manifest[1].status,
                            contents |-> manifest[1].contents]>>
            /\ UNCHANGED in_thread
       ELSE /\ in_thread' = <<source_file.contents>>
            /\ served' = <<>>
    /\ UNCHANGED <<source_file, manifest>>
    /\ UNCHANGED <<pc, callVars, outdir, objVars, accVars, loopVars, optVars,
                   outVars, histVars, fnVars, readerVars, wsVars>>

\* run_pipeline after proc.process: a raise becomes an "error" result; the
\* manifest is written for "success" and "partial", with the size the
\* source file has then.
ProcessReturns(status) ==
    /\ in_thread # <<>>
    /\ manifest' =
           IF status \in {"success", "partial"}
           THEN <<[status |-> status, source_size |-> source_file.size,
                   contents |-> in_thread[1]]>>
           ELSE manifest
    /\ served' = <<[cached |-> FALSE, status |-> status,
                    contents |-> in_thread[1]]>>
    /\ in_thread' = <<>>
    /\ UNCHANGED source_file
    /\ UNCHANGED <<pc, callVars, outdir, objVars, accVars, loopVars, optVars,
                   outVars, histVars, fnVars, readerVars, wsVars>>

InitPipeline ==
    /\ InitProcess
    /\ recording = FALSE
    /\ file = <<>>
    /\ todo = <<>>
    /\ first = <<>>
    /\ arg = <<>>
    /\ ret = <<>>
    /\ SideIdle

NextPipeline ==
    \/ \E size \in 1..MaxSize, contents \in 1..MaxContents :
           WriteSource(size, contents)
    \/ \E has_processor \in BOOLEAN : run_pipeline(has_processor)
    \/ \E status \in {"success", "partial", "error"} : ProcessReturns(status)

SpecPipeline == InitPipeline /\ [][NextPipeline]_vars

\* ------------------------------------------------------------ properties
\* The elements of the optional-key set a metadata record reports.
ReportedKeys(md) ==
    (IF md.has_materials THEN {"materials"} ELSE {})
    \cup (IF md.has_skeleton THEN {"skeleton"} ELSE {})
    \cup (IF md.has_animations THEN {"animations"} ELSE {})

\* The exception text of the fatal format error the file read so far
\* shows, "" if it shows none.  (Read when process has returned.)
FatalText ==
    CASE /\ Lower(suffix) = ".fbx" /\ src.readable
         /\ (src.len < FbxHeaderLen \/ src.sig # FbxMagic)
           -> "Not a valid FBX binary file"
      [] Lower(suffix) = ".fbx" /\ src.nodes /\ ~src.objects
           -> "FBX file has no Objects section"
      [] /\ Lower(suffix) = ".fbx" /\ src.nodes /\ src.objects
         /\ src.wellformed /\ ~src.geometry
           -> "FBX file has no Geometry nodes"
      [] /\ Lower(suffix) = ".glb" /\ src.readable
         /\ src.len >= GlbHeaderLen /\ src.magic # GLB_MAGIC
           -> "Not a valid GLB file"
      [] /\ Lower(suffix) = ".glb" /\ src.readable
         /\ src.len >= GlbHeaderLen /\ src.magic = GLB_MAGIC
         /\ ~src.json_chunk
           -> "No JSON chunk in GLB"
      [] OTHER -> ""

\* C1: process never lets an exception escape, whatever the source file
\* and the output directory -- also when writing geometry.json fails.
C1_NoExceptionEscapes == raised = <<>>

\* C2: the returned status is "success" exactly when output was produced
\* and no warning recorded, "partial" exactly when output was produced
\* with at least one warning, "error" exactly when there is no output
\* (outputs empty, error message set); the outputs named exist.
C2_StatusReflectsOutput ==
    pc = "returned" =>
        LET r == result[1]
            produced == r.outputs # <<>> /\ Range0(r.outputs) \subseteq outdir
        IN  /\ r.status \in {"success", "partial", "error"}
            /\ r.status = "success" <=> (produced /\ r.warnings = <<>>)
            /\ r.status = "partial" <=> (produced /\ r.warnings # <<>>)
            /\ r.status = "error" <=> (r.outputs = <<>> /\ r.error # <<>>)

\* A file decoded with a warning and two textures has been returned.
C2_Witness ==
    /\ pc = "returned"
    /\ result[1].status = "partial"
    /\ Len(result[1].outputs) = 3

\* C3: a file whose lowercased extension is none of .obj, .fbx, .gltf,
\* .glb gets status "error" with an "Unsupported format" message, and
\* nothing is written to the output directory.
C3_UnsupportedFormat ==
    pc = "returned" /\ Lower(suffix) \notin supported_extensions =>
        /\ result[1].status = "error"
        /\ result[1].error = <<"Unsupported format", Lower(suffix)>>
        /\ result[1].outputs = <<>>
        /\ outdir = {}

\* process has returned for a file named *.TXT.
C3_Witness == pc = "returned" /\ suffix = ".TXT"

\* C4: a fatal format error (FBX header mismatch, FBX without Objects
\* section or Geometry nodes, GLB with a foreign magic or without JSON
\* chunk) gives status "error" with the exception text, and neither
\* geometry.json nor a texture has been written.
C4_FatalFormatError ==
    pc = "returned" /\ FatalText # "" =>
        /\ result[1].status = "error"
        /\ result[1].error = <<"Parse error", FatalText>>
        /\ result[1].outputs = <<>>
        /\ outdir = {}

\* process has returned for a GLB file with a valid header whose chunks
\* held no JSON chunk.
C4_Witness ==
    /\ pc = "returned"
    /\ suffix = ".GLB"
    /\ src.readable /\ src.len >= GlbHeaderLen /\ src.magic = GLB_MAGIC
    /\ ~src.json_chunk

\* C5: in the FBX and glTF decoders an exception during material,
\* skeleton or animation extraction does not keep the geometry from being
\* returned and written: the result is not an error, the failed field is
\* absent, no warning is added and the status is what the geometry's own
\* warnings make it.
C5_OptionalFailureIsSilent ==
    failed # {} =>
        /\ pc \notin {"write", "returned", "raised"} \/ geometry # <<>>
        /\ geometry # <<>> =>
               /\ geometry[1].keys \cap failed = {}
               /\ geometry[1].warnings = warnings
        /\ pc = "returned" =>
               /\ result[1].status = Status(warnings)
               /\ result[1].status # "error"
               /\ result[1].warnings = warnings
               /\ result[1].outputs[1] = "geometry.json"
               /\ "geometry.json" \in outdir
               /\ ReportedKeys(result[1].metadata) \cap failed = {}

\* An FBX file whose three optional stages all raised has been returned.
C5_Witness ==
    /\ pc = "returned"
    /\ suffix = ".fbx"
    /\ failed = {"materials", "skeleton", "animations"}

\* C6: the vertex_count of a produced geometry never exceeds
\* _MAX_VERTICES, for each decoder; for FBX this is the expanded
\* (per-polygon-corner) count over all geometries.
C6_VertexCeiling ==
    geometry # <<>> => geometry[1].vertex_count <= _MAX_VERTICES

\* C7: when the vertex ceiling is reached, the warnings hold exactly one
\* truncation warning for the file, whatever follows the ceiling.
C7_OneTruncationWarning ==
    geometry # <<>> =>
        Cardinality({i \in 1..Len(geometry[1].warnings) :
                        geometry[1].warnings[i] = TruncationWarning}) <= 1

\* C8: every entry i of indices satisfies 0 <= i < vertex_count, and
\* len(indices) is a multiple of 3.
C8_IndexValidity ==
    geometry # <<>> =>
        LET g == geometry[1]
        IN  /\ \A k \in 1..Len(g.indices) :
                   0 <= g.indices[k] /\ g.indices[k] < g.vertex_count
            /\ Len(g.indices) % 3 = 0

\* C9: len(positions) = 3 * vertex_count and len(indices) = 3 * face_count.
C9_CountsMatchArrays ==
    geometry # <<>> =>
        LET g == geometry[1]
        IN  /\ g.positions = 3 * g.vertex_count
            /\ Len(g.indices) = 3 * g.face_count

\* C10: normals is empty or has 3 * vertex_count entries, uvs is empty or
\* has 2 * vertex_count entries, also when only some face vertices,
\* geometries or primitives carry them.
C10_AttributeArraysAligned ==
    geometry # <<>> =>
        LET g == geometry[1]
        IN  /\ g.normals \in {0, 3 * g.vertex_count}
            /\ g.uvs \in {0, 2 * g.vertex_count}

\* C11: whenever the output holds a skeleton, bone_indices and
\* bone_weights each have exactly 4 * vertex_count entries, for FBX and
\* for glTF, also when only some primitives carry JOINTS_0 / WEIGHTS_0.
C11_BoneArraysPerVertex ==
    geometry # <<>> /\ "skeleton" \in geometry[1].keys =>
        /\ geometry[1].bone_indices = 4 * geometry[1].vertex_count
        /\ geometry[1].bone_weights = 4 * geometry[1].vertex_count

\* C12: in every skeleton the parent of bone i is -1 or the index of a bone
\* placed earlier (0 <= parent < i), and no more than _MAX_BONES bones are
\* produced, whatever the connections or the node hierarchy of the input.
C12_ParentsPlacedEarlier ==
    ret # <<>> /\ arg[1] \in {"_extract_fbx_skeleton", "gltf_bones"} =>
        /\ Len(ret[1]) <= _MAX_BONES
        /\ \A i \in 1..Len(ret[1]) :
               ret[1][i] = -1 \/ (0 <= ret[1][i] /\ ret[1][i] < i - 1)

\* An FBX file whose third bone is connected to itself, with more bones than
\* the cap: the skeleton has _MAX_BONES bones and the second hangs under
\* the first.
C12_Witness ==
    /\ ret # <<>> /\ arg[1] = "_extract_fbx_skeleton"
    /\ arg[2].n > _MAX_BONES
    /\ \E b \in 1..arg[2].n : bone_parent(arg[2].c2p, arg[2].n)[b] = b
    /\ ret[1] = <<-1, 0>>

\* A glTF skin that lists a child before its parent, in a hierarchy with a
\* cycle: the child becomes a root.
C12_WitnessGltf ==
    /\ ret # <<>> /\ arg[1] = "gltf_bones"
    /\ arg[2].children = <<<<1>>, <<0>>>>
    /\ arg[2].joints = <<1, 0, 1>>
    /\ ret[1] = <<-1, 0>>

\* The sum of the entries of wt at the positions in S.
RECURSIVE SumOf(_, _)
SumOf(wt, S) ==
    IF S = {} THEN 0
    ELSE LET i == CHOOSE x \in S : TRUE
         IN  wt[i] + SumOf(wt, S \ {i})

\* C13: an FBX vertex keeps its (at most) 4 influences of largest weight,
\* each kept weight is the weight divided by the sum of the kept ones (to
\* the millionth that round(w, 6) keeps), so the four bone_weights sum to 1
\* within that rounding when the vertex has an influence and are all 0
\* when it has none.
C13_TopFourNormalized ==
    ret # <<>> /\ arg[1] = "top4" =>
        LET wt == arg[2]
            positive == {i \in 1..Len(wt) : wt[i] > 0}
            count == IF Cardinality(positive) < 4 THEN Cardinality(positive)
                     ELSE 4
            bi == ret[1].bi
            bw == ret[1].bw
            kept == {bi[k] + 1 : k \in 1..count}
            total == bw[1] + bw[2] + bw[3] + bw[4]
        IN  /\ kept \subseteq positive /\ Cardinality(kept) = count
            /\ \A i \in kept, j \in positive \ kept : wt[i] >= wt[j]
            /\ \A k \in 1..4 : k > count => bi[k] = 0 /\ bw[k] = 0
            /\ \A k \in 1..count :
                   LET s == SumOf(wt, kept)
                       w == wt[bi[k] + 1]
                   IN  /\ 2 * (bw[k] * s - w * WeightScale) <= s
                       /\ 2 * (w * WeightScale - bw[k] * s) <= s
            /\ count = 0 => bw = <<0, 0, 0, 0>>
            /\ count > 0 => total - WeightScale \in -2..2

\* Five influences, one of them dropped, normalised to 0.5, 0.2, 0.2, 0.1.
C13_Witness ==
    /\ ret # <<>> /\ arg[1] = "top4"
    /\ arg[2] = <<1, 2, 5, 1, 2>>
    /\ ret[1].bw = <<500000, 200000, 200000, 100000>>
    /\ ret[1].bi = <<2, 1, 4, 0>>

\* C14: every animation track has at most _MAX_KEYFRAMES keyframes,
\* whatever the length of the source curve.
C14_KeyframeCap ==
    ret # <<>> /\ arg[1] \in {"fbx_keyframes", "gltf_keyframes"} =>
        Len(ret[1]) <= _MAX_KEYFRAMES

\* C17: for a non-empty list of position triples _compute_bounds returns
\* the per-axis minimum and maximum over all triples and the midpoint
\* (min + max) / 2 as center, each to the 6 decimals it keeps, so that
\* min <= center <= max on every axis; for the empty list it returns
\* all-zero min, max and center.
C17_BoundsCorrect ==
    ret # <<>> /\ arg[1] = "_compute_bounds" =>
        LET p == arg[2]
            b == ret[1]
            axis(j) == {p[i] : i \in {k \in 1..Len(p) : k % 3 = j % 3}}
        IN  /\ p = <<>> =>
                   b = [min |-> <<0, 0, 0>>, max |-> <<0, 0, 0>>,
                        center |-> <<0, 0, 0>>]
            /\ p # <<>> =>
                   \A j \in 1..3 :
                       \E lo \in axis(j), hi \in axis(j) :
                           /\ \A v \in axis(j) : lo <= v /\ v <= hi
                           /\ b.min[j] = Round6(lo)
                           /\ b.max[j] = Round6(hi)
                           /\ b.center[j] * 20 - (lo + hi) \in -10..10
                           /\ b.min[j] <= b.center[j]
                           /\ b.center[j] <= b.max[j]

\* The positions (0,0,0), (1,2,3), (-1,0,5) give min [-1,0,0], max [1,2,5]
\* and center [0,1,2.5].
C17_Witness ==
    /\ ret # <<>> /\ arg[1] = "_compute_bounds"
    /\ arg[2] = ExamplePositions
    /\ ret[1] = [min |-> <<-1000000, 0, 0>>,
                 max |-> <<1000000, 2000000, 5000000>>,
                 center |-> <<0, 1000000, 2500000>>]

\* C16: after a call that returns a non-error result, outputs is the
\* geometry.json descriptor plus exactly one descriptor per texture file
\* the call wrote: every file in the output directory has a descriptor and
\* every descriptor names a file that is there.
C16_OneDescriptorPerTexture ==
    pc = "returned" /\ result[1].status # "error" =>
        /\ Range0(result[1].outputs) = outdir
        /\ Len(result[1].outputs) = Cardinality(outdir)
        /\ result[1].outputs[1] = "geometry.json"

\* The consecutive triples of a flat index list.
Triangles(indices) ==
    [t \in 1..(Len(indices) \div 3) |->
        <<indices[3 * t - 2], indices[3 * t - 1], indices[3 * t]>>]

\* The triangles (v0, v_i, v_i+1), i = 1..k-2, of a polygon v0..v_k-1.
FanTriangles(v) == [i \in 1..(Len(v) - 2) |-> <<v[1], v[i + 1], v[i + 2]>>]

\* The fans of polygons whose corners are numbered consecutively from base.
RECURSIVE PolygonFans(_, _)
PolygonFans(polygons, base) ==
    IF polygons = <<>> THEN <<>>
    ELSE FanTriangles([i \in 1..Len(Head(polygons)) |-> base + i - 1])
             \o PolygonFans(Tail(polygons), base + Len(Head(polygons)))

\* C20: a polygon with k >= 3 vertices (an OBJ face line or an FBX polygon
\* loop) yields exactly the k - 2 triangles (v0, v_i, v_i+1), i = 1..k-2,
\* in that order, and a polygon with fewer than 3 vertices yields none.
C20_FanTriangulation ==
    /\ ret # <<>> /\ arg[1] = "obj_face" =>
           /\ Len(ret[1].indices) % 3 = 0
           /\ Triangles(ret[1].indices) = FanTriangles(arg[2])
           /\ ret[1].faces = Len(Triangles(ret[1].indices))
           /\ ret[1].faces = IF Len(arg[2]) >= 3 THEN Len(arg[2]) - 2 ELSE 0
    /\ ret # <<>> /\ arg[1] = "fbx_polygons" =>
           /\ Len(ret[1].indices) % 3 = 0
           /\ Triangles(ret[1].indices) =
                  PolygonFans(SplitPolygons(arg[2], <<>>, <<>>), 0)
           /\ ret[1].faces = Len(Triangles(ret[1].indices))

\* The face line 'f 1 2 3 4', its vertices emitted as 0, 1, 2, 3, yields
\* exactly (0,1,2) and (0,2,3).
C20_Witness ==
    /\ ret # <<>> /\ arg[1] = "obj_face"
    /\ arg[2] = <<0, 1, 2, 3>>
    /\ ret[1] = [indices |-> <<0, 1, 2, 0, 2, 3>>, faces |-> 2]

\* An FBX pentagon followed by a triangle: three triangles fanned from
\* corner 0, then one over corners 5, 6, 7.
C20_WitnessFbx ==
    /\ ret # <<>> /\ arg[1] = "fbx_polygons"
    /\ arg[2] = <<0, 1, 2, 3, -5, 4, 0, -2>>
    /\ ret[1].indices = <<0, 1, 2, 0, 2, 3, 0, 3, 4, 5, 6, 7>>

\* C19: once an OBJ file has reached the vertex ceiling, only the face that
\* hit it is abandoned: a face line whose vertex tokens were all taken
\* (each naming a triple emitted before) is fan-triangulated into the
\* output, before and after the ceiling was hit.
C19_LaterFacesTriangulated ==
    [][pc = "obj_face" /\ pc' = "obj_line" =>
           /\ all_indices' = all_indices \o Fan(face_vertices)
           /\ face_count' = face_count + FanCount(face_vertices)]_vars

DrawnAt(name) == {k \in 1..Len(file) : file[k][1] = name}

Item(k) == file[k][2][1]

\* The vertex indices a PolygonVertexIndex array names.
PviVertices(pvi) ==
    {IF pvi[i] < 0 THEN BitNot(pvi[i]) ELSE pvi[i] : i \in 1..Len(pvi)}

\* The corners of the closed polygons of a PolygonVertexIndex array.
PviCorners(pvi) ==
    LET closing == {i \in 1..Len(pvi) : pvi[i] < 0}
    IN  IF closing = {} THEN 0
        ELSE CHOOSE i \in closing : \A j \in closing : j <= i

\* The index triples the face lines of an OBJ file use.
TriplesUsed == {Item(k) : k \in DrawnAt("ObjFaceVertex")}

\* A file whose indices all name a vertex it has: every FBX Mesh has
\* Vertices and closed polygons over them, every glTF index is below the
\* POSITION count.
ValidFile ==
    /\ \A k \in DrawnAt("FbxGeometry") :
           /\ Item(k).subtype = "Mesh" =>
                  Item(k).has_vertices /\ Item(k).has_pvi
           /\ \A v \in PviVertices(Item(k).pvi) :
                  v < Item(k).raw_verts \div 3
           /\ Item(k).pvi # <<>> => Item(k).pvi[Len(Item(k).pvi)] < 0
    /\ \A k \in DrawnAt("GltfPrimitive") :
           \A i \in 1..Len(Item(k).indices) :
               Item(k).indices[i] < Item(k).pos \div 3

\* What the item at place k of the file counts for: the vertices an FBX
\* geometry names ("named") and its polygon corners ("corners"), the
\* vertices a glTF primitive uses ("used") and its POSITION elements.
CountAt(what, k) ==
    IF what = "named"
    THEN IF Item(k).subtype = "Mesh"
         THEN Cardinality(PviVertices(Item(k).pvi)) ELSE 0
    ELSE IF what = "corners"
    THEN IF Item(k).subtype = "Mesh" THEN PviCorners(Item(k).pvi) ELSE 0
    ELSE IF what = "used" /\ Item(k).has_indices
    THEN Cardinality({Item(k).indices[i] : i \in 1..Len(Item(k).indices)})
    ELSE Item(k).pos \div 3

RECURSIVE SumAt(_, _)
SumAt(what, S) ==
    IF S = {} THEN 0
    ELSE LET k == CHOOSE x \in S : TRUE
         IN  CountAt(what, k) + SumAt(what, S \ {k})

\* N of the claim: the vertices the file's faces name.
UniqueReferenced ==
    IF Lower(suffix) = ".obj" THEN Cardinality(TriplesUsed)
    ELSE IF Lower(suffix) = ".fbx"
    THEN SumAt("named", DrawnAt("FbxGeometry"))
    ELSE SumAt("used", DrawnAt("GltfPrimitive"))

\* N as the decoders count it: OBJ index triples, FBX polygon corners,
\* glTF POSITION elements.
EmittedVertices ==
    IF Lower(suffix) = ".obj" THEN Cardinality(TriplesUsed)
    ELSE IF Lower(suffix) = ".fbx"
    THEN SumAt("corners", DrawnAt("FbxGeometry"))
    ELSE SumAt("elements", DrawnAt("GltfPrimitive"))

C18_WitnessFbx ==
    /\ geometry # <<>> /\ Lower(suffix) = ".fbx" /\ ValidFile
    /\ geometry[1].warnings = <<>>
    /\ geometry[1].vertex_count = 3

\* C21: the PolygonVertexIndex array is split into polygon loops at each
\* negative entry: there is one polygon per negative entry, the polygon
\* closed by the j-th negative entry holds, in order, the entries after the
\* previous negative entry up to and including that one, a non-negative
\* entry contributing itself and the closing entry s contributing -s-1.
C21_PolygonLoops ==
    ret # <<>> /\ arg[1] = "build_polygons" =>
        LET raw == arg[2]
            polygons == ret[1]
            ends == {k \in 1..Len(raw) : raw[k] < 0}
            EndOf(j) == IF j = 0 THEN 0
                        ELSE CHOOSE k \in ends :
                                 Cardinality({m \in ends : m < k}) = j - 1
        IN  /\ Len(polygons) = Cardinality(ends)
            /\ \A j \in 1..Len(polygons) :
                   polygons[j] =
                       [i \in 1..(EndOf(j) - EndOf(j - 1)) |->
                           LET s == raw[EndOf(j - 1) + i]
                           IN  IF s < 0 THEN -s - 1 ELSE s]

\* [0, 1, -3] decodes to the single polygon [0, 1, 2].
C21_Witness ==
    /\ ret # <<>> /\ arg[1] = "build_polygons"
    /\ arg[2] = <<0, 1, -3>>
    /\ ret[1] = <<<<0, 1, 2>>>>

\* C22: in the glTF skeleton the parent of each bone is the bone index of
\* the nearest ancestor node that is a joint of the skin, or -1 when no
\* ancestor is one, in whatever order skin.joints lists the joints.  Stated
\* for skins that list no node twice and no more than _MAX_BONES joints, in
\* hierarchies where a node has at most one parent and is not its own
\* ancestor.
C22_NearestAncestorJoint ==
    ret # <<>> /\ arg[1] = "gltf_bones" =>
        LET children == arg[2].children
            joints == arg[2].joints
            nodes == 0..(Len(children) - 1)
            ParentsOf(n) == {p \in nodes :
                                \E k \in 1..Len(children[p + 1]) :
                                    children[p + 1][k] = n}
            RECURSIVE Reaches(_, _, _)
            Reaches(a, n, fuel) ==
                /\ fuel > 0
                /\ \/ a \in ParentsOf(n)
                   \/ \E p \in ParentsOf(n) : Reaches(a, p, fuel - 1)
            Ancestors(n) == {a \in nodes : Reaches(a, n, Len(children))}
            BoneOf(n) == (CHOOSE b \in 1..Len(joints) : joints[b] = n) - 1
            JointAncestors(n) ==
                {a \in Ancestors(n) : \E b \in 1..Len(joints) : joints[b] = a}
            Nearest(n) ==
                CHOOSE a \in JointAncestors(n) :
                    \A c \in JointAncestors(n) \ {a} : c \in Ancestors(a)
        IN  (/\ Len(joints) <= _MAX_BONES
             /\ \A b, c \in 1..Len(joints) : joints[b] = joints[c] => b = c
             /\ \A n \in nodes : Cardinality(ParentsOf(n)) <= 1
             /\ \A n \in nodes : n \notin Ancestors(n))
            => /\ Len(ret[1]) = Len(joints)
               /\ \A i \in 1..Len(joints) :
                      ret[1][i] = IF JointAncestors(joints[i]) = {} THEN -1
                                  ELSE BoneOf(Nearest(joints[i]))

\* C23: when the X/Y/Z curves of one AnimationCurveNode are merged, the
\* curve with the most keyframes is the master (the track's times are those
\* of a curve no other curve is longer than, its last sample included), and
\* a curve without a sample at a stride index contributes 0.0 there.
C23_LongestChannelIsMaster ==
    ret # <<>> /\ arg[1] = "fbx_track" /\ ret[1].master # "" =>
        LET lens == arg[2]
            c == CHOOSE j \in 1..3 : <<"d|X", "d|Y", "d|Z">>[j] = ret[1].master
            times == ret[1].times
        IN  /\ \A j \in 1..3 : lens[j] <= lens[c]
            /\ times[Len(times)] = lens[c] - 1
            /\ \A k \in 1..Len(times), j \in 1..3 :
                   ret[1].values[3 * (k - 1) + j] =
                       IF times[k] < lens[j] THEN times[k] ELSE -1

\* C24: when a node header, a property or a declared length runs past the
\* end of the buffer, read_all_nodes stops and returns the nodes decoded so
\* far; it does not raise on a read past the end.
C24_StopsWithoutRaising == rpc # "IndexError"

\* C25: read_all_nodes terminates on every buffer that passed the header
\* check, also when a record's non-zero end_offset points at or before the
\* record's own start.
C25_ReaderTerminates ==
    <>(rpc \in {"returned", "IndexError", "ValueError", "RecursionError"})

\* C26: every bone reference of a produced Geometry resolves: when the
\* call has returned and the output holds animations, it holds the skeleton
\* whose bones the tracks' bone_index values point into.
C26_AnimationsHaveSkeleton ==
    pc = "returned" /\ geometry # <<>> /\ "animations" \in geometry[1].keys
        => "skeleton" \in geometry[1].keys

\* C27: at most one agent run (a task inside agents.run_agent) is in
\* progress at any time, and agent_busy is true as long as one is, under
\* every interleaving of prompt, console_error and cancel_agent messages
\* with the steps of the tasks.
C27_OneRunAndBusy ==
    LET running == {t \in DOMAIN tasks : tasks[t].phase = "run"}
    IN  /\ Cardinality(running) <= 1
        /\ running # {} => agent_busy

\* A prompt run is in progress and has been asked to stop, while an
\* auto-fix task that was scheduled before the run began has started, found
\* the agent busy and left its error in pending_errors, and another one is
\* still waiting for its first step.
C27_Witness ==
    /\ \E t \in DOMAIN tasks :
           /\ tasks[t].kind = "prompt" /\ tasks[t].phase = "run"
           /\ tasks[t].cancelled
    /\ \E t \in DOMAIN tasks :
           tasks[t].kind = "fix" /\ tasks[t].phase = "scheduled"
    /\ pending_errors # <<>>
    /\ agent_busy

\* C28: auto_fix_count never exceeds MAX_AUTO_FIX.
C28_AutoFixBudget == auto_fix_count <= MAX_AUTO_FIX

\* C29: a prompt queued while the agent is busy is delivered to that run or
\* discarded when it ends: when the agent is not busy (so that no run is in
\* progress) injected_messages is empty.
C29_NoStaleInjection == ~agent_busy => injected_messages = <<>>

\* C30: run_pipeline serves a result from manifest.json only when the
\* manifest was written by a success or partial run on the source file as
\* it is now: a cached result is never an error result and never the result
\* of other contents than the file's present ones.
C30_CacheIsFresh ==
    served # <<>> /\ served[1].cached =>
        /\ served[1].status \in {"success", "partial"}
        /\ served[1].contents = source_file.contents

====
